---- MODULE Spec2Model ----
(***************************************************************************)
(* Reconciliation core of n8n-cli: the paginated workflow fetch            *)
(* (n8n/client.go), the change planner and the sync executor               *)
(* (cmd/workflows/sync.go), and the write-back of remote state into local  *)
(* files (cmd/workflows/refresh.go).                                       *)
(*                                                                         *)
(* Conventions.  A Go pointer that may be nil is an option: None is nil    *)
(* and Some(x) a pointer to x.  Workflow and tag identifiers are opaque     *)
(* strings, written here as natural numbers; the code treats a nil         *)
(* identifier and "" alike everywhere it tests one (Id == nil ||           *)
(* *Id == ""), so both are NoId.  Names are sequences of code points.  A   *)
(* timestamp is a natural number, 0 for nil.  The active flag is "nil",    *)
(* "true" or "false".                                                      *)
(***************************************************************************)
EXTENDS Integers, Sequences, FiniteSets, TLC

VARIABLES
    \* ---- Client.GetWorkflows (n8n/client.go) ----
    cursor,         \* the cursor sent with the next list request, 0 is ""
    seenCursors,    \* the next-cursors the server has returned so far
    all,            \* the workflows accumulated so far
    fetchPc,        \* "loop", "returned" or "failed"
    fetchErr,       \* "" or the class of the error returned
    requests,       \* history: number of list requests issued
    served,         \* history: the pages of the successful responses, in order
    returned,       \* history: the non-empty next-cursors returned, in order
    \* ---- DetectWorkflowChanges (cmd/workflows/sync.go) ----
    planLocal,      \* the local workflow handed to the planner
    planRemote,     \* the remote workflow handed to the planner, None if absent
    planChanges,    \* the WorkflowChange the planner returned
    planPc,         \* "init" or "planned"
    \* ---- the n8n instance ----
    n8nWorkflows,   \* its workflows, in listing order
    serverTags,     \* its tag registry
    gen,            \* number of identifiers it has handed out
    \* ---- the working directory and the command line ----
    files,          \* path -> file content
    args,           \* the flags of the command being run
    \* ---- SyncWorkflows / RefreshWorkflows ----
    pc,             \* "start", "files", "prune", "refresh" or "done"
    pass,           \* how many times the command has been started
    scan,           \* the directory entries read at the start of the pass
    idx,            \* index in scan of the next file to process
    localWorkflowIDs,   \* ids found in the local files so far
    updatedWorkflows,   \* ids of the workflows synced so far
    calls,          \* history: mutating calls issued in this pass, in order
    msgs,           \* history: dry-run messages printed in this pass
    results,        \* history: the WorkflowResult of each file processed
    writes,         \* history: the files written by write-back in this pass
    written,        \* history: the workflows whose files earlier passes wrote
    errored,        \* history: an error was returned or printed
    warned,         \* history: a warning was printed
    faulty,         \* history: a call was made to fail
    \* ---- SanitizeFilename (cmd/root.go) ----
    sanName,        \* the name handed to SanitizeFilename
    sanResults,     \* history: the results of sanitizing it again and again
    \* ---- DetectWorkflowDrift (cmd/root.go) ----
    driftActual,    \* the first workflow compared
    driftDesired,   \* the second workflow compared
    driftPc,        \* "init" or "compared"
    hasDrift,       \* the value DetectWorkflowDrift returned
    \* ---- extractLocalWorkflows (cmd/workflows/refresh.go) ----
    indexDir,       \* path -> file content of the directory scanned
    indexEntries,   \* the directory entries in the order os.ReadDir returns them
    indexPos,       \* index in indexEntries of the next entry to look at
    indexFiles,     \* the index built so far: workflow id -> path
    \* ---- determineFilePathAndAction (cmd/workflows/refresh.go) ----
    resolveArgs,    \* the arguments: workflow, localFiles, output, overwrite
    resolvePc,      \* "init" or "resolved"
    resolution,     \* the [path, action] returned
    \* ---- HandleTagUpdates (cmd/workflows/sync.go) ----
    tagWorkflow,    \* the local workflow whose tags are reconciled
    tagRegistry,    \* history: the tag registry when the reconciler was called
    tagPc,          \* "init" or "done"
    tagErr          \* "" or the error returned

fetchVars == <<cursor, seenCursors, all, fetchPc, fetchErr, requests, served, returned>>
planVars == <<planLocal, planRemote, planChanges, planPc>>
serverVars == <<n8nWorkflows, serverTags, gen>>
syncVars == <<serverVars, files, args, pc, pass, written, scan, idx, localWorkflowIDs,
              updatedWorkflows, calls, msgs, results, writes, errored, warned, faulty>>
sanVars == <<sanName, sanResults>>
driftVars == <<driftActual, driftDesired, driftPc, hasDrift>>
indexVars == <<indexDir, indexEntries, indexPos, indexFiles>>
resolveVars == <<resolveArgs, resolvePc, resolution>>
tagVars == <<tagWorkflow, tagRegistry, tagPc, tagErr>>
utilVars == <<sanVars, driftVars, indexVars, resolveVars, tagVars>>
vars == <<fetchVars, planVars, syncVars, utilVars>>

None == <<>>
Some(x) == <<x>>
NoId == 0
EmptyMap == [x \in {} |-> x]

(***************************************************************************)
(* Bounds                                                                  *)
(***************************************************************************)
MaxCursors == 3

RECURSIVE Flatten(_)
Flatten(pages) ==
    IF pages = <<>> THEN <<>> ELSE Head(pages) \o Flatten(Tail(pages))

Range(s) == {s[i] : i \in 1..Len(s)}

(***************************************************************************)
(* Client.GetWorkflows: one list request per step, against a server that   *)
(* may answer anything.                                                    *)
(***************************************************************************)
Cursors == 1..MaxCursors

\* result.Data of one response: nil, empty, or a page of workflows
PageChoices == {None, Some(<<>>), Some(<<1>>), Some(<<2, 3>>)}

\* result.NextCursor of one response: nil, "" (0), or a cursor value
NextChoices == {None, Some(0)} \cup {Some(c) : c \in Cursors}

ResponseKinds == {"ok", "transport", "http", "decode"}

FetchInit ==
    /\ cursor = 0
    /\ seenCursors = {}
    /\ all = <<>>
    /\ fetchPc = "loop"
    /\ fetchErr = ""
    /\ requests = 0
    /\ served = <<>>
    /\ returned = <<>>

FetchIdle ==
    /\ cursor = 0
    /\ seenCursors = {}
    /\ all = <<>>
    /\ fetchPc = "idle"
    /\ fetchErr = ""
    /\ requests = 0
    /\ served = <<>>
    /\ returned = <<>>

AppendPageOverwrite(acc, data) ==
    IF data # None /\ Len(data[1]) > 0 THEN data[1] ELSE acc

\* if result.Data != nil && len(*result.Data) > 0 { all = append(all, ...) }
AppendPage(acc, data) ==
    IF data # None /\ Len(data[1]) > 0 THEN acc \o data[1] ELSE acc

\* result.NextCursor == nil || *result.NextCursor == ""
IsLastPage(next) == next = None \/ next[1] = 0

CursorRepeatedNever(seen, next) == FALSE

\* if _, exists := seenCursors[next]; exists
CursorRepeated(seen, next) == next \in seen

\* One iteration of the for loop of GetWorkflows.
FetchPage(kind, data, next) ==
    /\ fetchPc = "loop"
    /\ requests' = requests + 1
    /\ IF kind # "ok"
       THEN /\ fetchErr' = kind
            /\ fetchPc' = "failed"
            /\ UNCHANGED <<cursor, seenCursors, all, served, returned>>
       ELSE /\ all' = AppendPage(all, data)
            /\ served' = Append(served, IF data = None THEN <<>> ELSE data[1])
            /\ IF IsLastPage(next)
               THEN /\ cursor' = 0
                    /\ fetchPc' = "returned"
                    /\ fetchErr' = ""
                    /\ UNCHANGED <<seenCursors, returned>>
               ELSE /\ returned' = Append(returned, next[1])
                    /\ IF CursorRepeated(seenCursors, next[1])
                       THEN /\ fetchErr' = "cycle"
                            /\ fetchPc' = "failed"
                            /\ UNCHANGED <<cursor, seenCursors>>
                       ELSE /\ seenCursors' = seenCursors \cup {next[1]}
                            /\ cursor' = next[1]
                            /\ fetchPc' = "loop"
                            /\ fetchErr' = ""
    /\ UNCHANGED <<planVars, syncVars, utilVars>>

(***************************************************************************)
(* Workflows, tags and the planner                                         *)
(***************************************************************************)
Tag(id, name, createdAt, updatedAt) ==
    [id |-> id, name |-> name, createdAt |-> createdAt, updatedAt |-> updatedAt]

Workflow(id, name, nodes, connections, active, tags, createdAt, updatedAt, shared) ==
    [id |-> id, name |-> name, nodes |-> nodes, connections |-> connections,
     active |-> active, tags |-> tags, createdAt |-> createdAt,
     updatedAt |-> updatedAt, shared |-> shared]

CleanTagKeepsTimestamps(t) == t

\* Tag{Id: tag.Id, Name: tag.Name}
CleanTag(t) == Tag(t.id, t.name, 0, 0)

\* CleanWorkflow: timestamps and sharing cleared, tags reduced to id and
\* name, a nil connections map replaced by an empty one.
CleanWorkflow(w) ==
    [w EXCEPT !.createdAt = 0,
              !.updatedAt = 0,
              !.shared = 0,
              !.tags = IF w.tags # None /\ Len(w.tags[1]) > 0
                       THEN Some([i \in 1..Len(w.tags[1]) |-> CleanTag(w.tags[1][i])])
                       ELSE w.tags,
              !.connections = IF w.connections = "nil" THEN "empty" ELSE w.connections]

\* DetectWorkflowDrift: !reflect.DeepEqual of the two, cleaned when minimal
DetectWorkflowDrift(actual, desired, minimal) ==
    IF minimal THEN CleanWorkflow(actual) # CleanWorkflow(desired)
    ELSE actual # desired

NoChanges ==
    [NeedsUpdate |-> FALSE, NeedsActivation |-> FALSE,
     NeedsDeactivation |-> FALSE, NeedsTagsUpdate |-> FALSE]

HasTagsNonNil(w) == w.tags # None

\* workflow.Tags != nil && len(*workflow.Tags) > 0
HasTags(w) == w.tags # None /\ Len(w.tags[1]) > 0

ChangesRemoteAbsentUnsetActivates(local) ==
    [NoChanges EXCEPT !.NeedsActivation = (local.active # "false"),
                      !.NeedsTagsUpdate = HasTags(local)]

\* DetectWorkflowChanges, remote == nil
ChangesRemoteAbsent(local) ==
    [NoChanges EXCEPT !.NeedsActivation = (local.active = "true"),
                      !.NeedsTagsUpdate = HasTags(local)]

\* localCopy / remoteCopy: Id, Active and Tags cleared
StripForDrift(w) == [w EXCEPT !.id = NoId, !.active = "nil", !.tags = None]

ChangesRemotePresentUnsetIsFalse(local, remote) ==
    [NeedsUpdate |-> DetectWorkflowDrift(StripForDrift(remote), StripForDrift(local), TRUE),
     NeedsActivation |-> local.active = "true" /\ remote.active # "true",
     NeedsDeactivation |-> local.active # "true" /\ remote.active = "true",
     NeedsTagsUpdate |->
        /\ HasTags(local)
        /\ \/ ~HasTags(remote)
           \/ local.tags # remote.tags]

\* DetectWorkflowChanges, remote != nil
ChangesRemotePresent(local, remote) ==
    [NeedsUpdate |-> DetectWorkflowDrift(StripForDrift(remote), StripForDrift(local), TRUE),
     NeedsActivation |->
        IF local.active # "nil" /\ remote.active # "nil"
        THEN local.active = "true" /\ remote.active = "false"
        ELSE local.active = "true",
     NeedsDeactivation |->
        /\ local.active # "nil" /\ remote.active # "nil"
        /\ ~(local.active = "true" /\ remote.active = "false")
        /\ local.active = "false" /\ remote.active = "true",
     NeedsTagsUpdate |->
        /\ HasTags(local)
        /\ \/ ~HasTags(remote)
           \/ local.tags # remote.tags]

DetectWorkflowChanges(local, remote) ==
    IF remote = None THEN ChangesRemoteAbsent(local)
    ELSE ChangesRemotePresent(local, remote[1])

\* "A", "B"
NameA == <<65>>
NameB == <<66>>

ActiveValues == {"nil", "true", "false"}

PlanTags ==
    {None, Some(<<>>), Some(<<Tag(51, "x", 0, 0)>>), Some(<<Tag(51, "x", 1, 1)>>),
     Some(<<Tag(NoId, "y", 0, 0)>>)}

PlanLocals ==
    {Workflow(id, NameA, n, "empty", a, t, 0, 0, 0) :
        id \in {NoId, 1}, n \in {0, 1}, a \in ActiveValues, t \in PlanTags}

PlanRemotes ==
    {Workflow(1, NameA, 0, c, a, t, 1, 2, 1) :
        c \in {"nil", "empty"}, a \in ActiveValues, t \in PlanTags}

PlanIdle ==
    /\ planLocal = Workflow(NoId, NameA, 0, "empty", "nil", None, 0, 0, 0)
    /\ planRemote = None
    /\ planChanges = NoChanges
    /\ planPc = "init"

\* The planner's inputs: any local workflow, any remote one or none.
PlanInit ==
    /\ planLocal \in PlanLocals
    /\ planRemote \in {None} \cup {Some(r) : r \in PlanRemotes}
    /\ planChanges = NoChanges
    /\ planPc = "init"

\* One call of DetectWorkflowChanges(local, remote).
Plan ==
    /\ planPc = "init"
    /\ planChanges' = DetectWorkflowChanges(planLocal, planRemote)
    /\ planPc' = "planned"
    /\ UNCHANGED <<planLocal, planRemote, fetchVars, syncVars, utilVars>>

(***************************************************************************)
(* File names.  A path inside the working directory is its file name       *)
(* split at the extension: [stem, ext].                                    *)
(***************************************************************************)
Underscore == 95
Dot == 46

\* unicode.IsSpace
IsSpace(r) ==
    \/ r \in 9..13
    \/ r \in {32, 133, 160, 5760, 8232, 8233, 8239, 8287, 12288}
    \/ r \in 8192..8202

ReservedGlyphsButSlash == {60, 62, 58, 34, 92, 124, 63, 42}

\* '<' '>' ':' '"' '/' '\\' '|' '?' '*'
ReservedGlyphs == {60, 62, 58, 34, 47, 92, 124, 63, 42}

\* the switch of SanitizeFilename on one rune
SanitizeRune(r) ==
    IF IsSpace(r) \/ r < 32 \/ r >= 126976 \/ r \in ReservedGlyphs
    THEN Underscore ELSE r

RECURSIVE TrimRight(_, _)
\* strings.TrimRight(s, cutset)
TrimRight(s, cutset) ==
    IF s # <<>> /\ s[Len(s)] \in cutset
    THEN TrimRight(SubSeq(s, 1, Len(s) - 1), cutset)
    ELSE s

\* strings.ToUpper on one rune (the letters that map into A-Z)
ToUpperRune(r) ==
    IF r \in 97..122 THEN r - 32
    ELSE IF r = 383 THEN 83
    ELSE IF r = 305 THEN 73
    ELSE r

\* strings.Index(base, "."), 0 when there is none
IndexOfDot(s) ==
    IF \E i \in 1..Len(s) : s[i] = Dot
    THEN CHOOSE i \in 1..Len(s) : s[i] = Dot /\ \A j \in 1..(i - 1) : s[j] # Dot
    ELSE 0

\* "CON" "PRN" "AUX" "NUL"
ReservedDevices == {<<67, 79, 78>>, <<80, 82, 78>>, <<65, 85, 88>>, <<78, 85, 76>>}

\* "COM" "LPT"
ReservedPorts == {<<67, 79, 77>>, <<76, 80, 84>>}

isWindowsReservedNameAfterUnderscores(name) ==
    LET bare == IF \E i \in 1..Len(name) : name[i] # Underscore
                THEN SubSeq(name, CHOOSE i \in 1..Len(name) :
                                      /\ name[i] # Underscore
                                      /\ \A j \in 1..(i - 1) : name[j] = Underscore,
                            Len(name))
                ELSE <<>>
        cut == IF IndexOfDot(bare) > 0 THEN SubSeq(bare, 1, IndexOfDot(bare) - 1) ELSE bare
        base == [i \in 1..Len(cut) |-> ToUpperRune(cut[i])]
    IN  \/ base \in ReservedDevices
        \/ /\ Len(base) = 4
           /\ SubSeq(base, 1, 3) \in ReservedPorts
           /\ base[4] \in 49..57

isWindowsReservedName(name) ==
    LET cut == IF IndexOfDot(name) > 0 THEN SubSeq(name, 1, IndexOfDot(name) - 1) ELSE name
        base == [i \in 1..Len(cut) |-> ToUpperRune(cut[i])]
    IN  \/ base \in ReservedDevices
        \/ /\ Len(base) = 4
           /\ SubSeq(base, 1, 3) \in ReservedPorts
           /\ base[4] \in 49..57

SanitizeFilename(name) ==
    IF name = <<>> THEN name
    ELSE LET replaced == [i \in 1..Len(name) |-> SanitizeRune(name[i])]
             sanitized == TrimRight(replaced, {32, Dot})
         IN  IF sanitized = <<>> THEN <<Underscore>>
             ELSE IF isWindowsReservedName(sanitized) THEN <<Underscore>> \o sanitized
             ELSE sanitized

Path(stem, ext) == [stem |-> stem, ext |-> ext]

\* ".json" ".yaml" ".yml" as code points
ExtChars(ext) ==
    IF ext = ".json" THEN <<46, 106, 115, 111, 110>>
    ELSE IF ext = ".yaml" THEN <<46, 121, 97, 109, 108>>
    ELSE <<46, 121, 109, 108>>

\* file.Name()
FileName(p) == p.stem \o ExtChars(p.ext)

\* byte-wise order of two file names, the order of os.ReadDir
LexLess(a, b) ==
    \E k \in 1..(Len(b)) :
        /\ \A j \in 1..(k - 1) : j <= Len(a) /\ a[j] = b[j]
        /\ \/ k > Len(a)
           \/ a[k] < b[k]

RECURSIVE SortPaths(_)
\* os.ReadDir: the entries of the directory sorted by file name
SortPaths(ps) ==
    IF ps = {} THEN <<>>
    ELSE LET first == CHOOSE p \in ps :
                        \A q \in ps \ {p} : LexLess(FileName(p), FileName(q))
         IN  <<first>> \o SortPaths(ps \ {first})

IsYamlExt(ext) == ext = ".yaml" \/ ext = ".yml"

(***************************************************************************)
(* The n8n instance behind ClientInterface.  remote is the list of its     *)
(* workflows in listing order, tags its tag registry, gen the number of    *)
(* identifiers it has handed out.  A call named in fail is answered with   *)
(* an error (a transport or HTTP failure) and changes nothing.             *)
(***************************************************************************)
FailTok(op, id) == [op |-> op, id |-> id]

Fails(fail, op, id) == FailTok(op, id) \in fail

\* identifiers the server assigns to new workflows and new tags
GenWorkflowId(n) == 100 + n
GenTagId(n) == 200 + n

IndexOfId(list, id) ==
    IF \E i \in 1..Len(list) : list[i].id = id
    THEN CHOOSE i \in 1..Len(list) :
            list[i].id = id /\ \A j \in 1..(i - 1) : list[j].id # id
    ELSE 0

NoWorkflow == Workflow(NoId, <<>>, 0, "nil", "nil", None, 0, 0, 0)

\* client.GetWorkflow(id): the workflow, a not-found error, or a transport error
GetWorkflow(remote, id, failed) ==
    IF failed THEN [err |-> "transport", wf |-> NoWorkflow]
    ELSE IF IndexOfId(remote, id) = 0 THEN [err |-> "notfound", wf |-> NoWorkflow]
    ELSE [err |-> "", wf |-> remote[IndexOfId(remote, id)]]

\* POST /workflows: id, active, timestamps and tags of the payload are
\* stripped by the client; the server assigns the identifier
ServerCreate(wf, n) ==
    Workflow(GenWorkflowId(n), wf.name, wf.nodes,
             IF wf.connections = "nil" THEN "empty" ELSE wf.connections,
             "false", Some(<<>>), 1, 1, 1)

\* PUT /workflows/{id}: content replaced, active and tags kept
ServerUpdate(old, wf) ==
    [old EXCEPT !.name = wf.name, !.nodes = wf.nodes,
                !.connections = IF wf.connections = "nil" THEN "empty" ELSE wf.connections,
                !.updatedAt = 2]

RemoveId(list, id) ==
    LET keep == {i \in 1..Len(list) : list[i].id # id}
        F[k \in 0..Len(list)] ==
            IF k = 0 THEN <<>>
            ELSE IF k \in keep THEN Append(F[k - 1], list[k]) ELSE F[k - 1]
    IN  F[Len(list)]

\* PUT /workflows/{id}/tags: the workflow's tags become the registry
\* entries of the given identifiers
ServerTagsOf(registry, tagIDs) ==
    Some([i \in 1..Len(tagIDs) |-> registry[IndexOfId(registry, tagIDs[i])]])

Call(op, id, ok) == [op |-> op, id |-> id, ok |-> ok]

Msg(op, id) == [op |-> op, id |-> id]

Ctx(r, t, g, c, m, w) ==
    [remote |-> r, tags |-> t, gen |-> g, calls |-> c, msgs |-> m, warned |-> w]

WithCall(ctx, op, id, ok) == [ctx EXCEPT !.calls = Append(@, Call(op, id, ok))]

WithMsg(ctx, op, id) == [ctx EXCEPT !.msgs = Append(@, Msg(op, id))]

(***************************************************************************)
(* The sync executor (cmd/workflows/sync.go)                               *)
(***************************************************************************)
ExecuteOrDryRunAlways(dryRun) == TRUE

\* ExecuteOrDryRun: TRUE when fn is run, FALSE when only dryRunMsg is printed
ExecuteOrDryRun(dryRun) == ~dryRun

Result(path, name) ==
    [FilePath |-> path, Name |-> name, WorkflowID |-> NoId, Created |-> FALSE,
     Updated |-> FALSE, err |-> "", fetch |-> "none", warned |-> FALSE,
     localId |-> NoId, localActive |-> "nil"]

Outcome(ctx, result, err) == [ctx |-> ctx, result |-> [result EXCEPT !.err = err]]

CreateWorkflowKeepsLocalID(ctx, wf, dryRun, result, fail) ==
    LET Created(w) ==
            Outcome([WithCall(ctx, "CreateWorkflow", w.id, TRUE) EXCEPT
                        !.remote = Append(@, w), !.gen = @ + 1],
                    [result EXCEPT !.Created = TRUE, !.WorkflowID = wf.id], "")
    IN  IF ~ExecuteOrDryRun(dryRun)
        THEN Outcome(WithMsg(ctx, "CreateWorkflow", wf.id), result, "")
        ELSE IF Fails(fail, "CreateWorkflow", NoId)
        THEN Outcome(WithCall(ctx, "CreateWorkflow", NoId, FALSE), result, "create")
        ELSE Created(ServerCreate(wf, ctx.gen))

\* CreateWorkflow and CreateWorkflowWithID (they differ in the message only)
CreateWorkflow(ctx, wf, dryRun, result, fail) ==
    LET Created(w) ==
            Outcome([WithCall(ctx, "CreateWorkflow", w.id, TRUE) EXCEPT
                        !.remote = Append(@, w), !.gen = @ + 1],
                    [result EXCEPT !.Created = TRUE, !.WorkflowID = w.id], "")
    IN  IF ~ExecuteOrDryRun(dryRun)
        THEN Outcome(WithMsg(ctx, "CreateWorkflow", wf.id), result, "")
        ELSE IF Fails(fail, "CreateWorkflow", NoId)
        THEN Outcome(WithCall(ctx, "CreateWorkflow", NoId, FALSE), result, "create")
        ELSE Created(ServerCreate(wf, ctx.gen))

CreateWorkflowWithID(ctx, wf, dryRun, result, fail) ==
    CreateWorkflow(ctx, wf, dryRun, result, fail)

UpdateWorkflow(ctx, wf, dryRun, result, fail) ==
    LET At(i) ==
            IF Fails(fail, "UpdateWorkflow", NoId) \/ i = 0
            THEN Outcome(WithCall(ctx, "UpdateWorkflow", wf.id, FALSE), result, "update")
            ELSE Outcome([WithCall(ctx, "UpdateWorkflow", wf.id, TRUE) EXCEPT
                            !.remote[i] = ServerUpdate(@, wf)],
                         [result EXCEPT !.Updated = TRUE, !.WorkflowID = wf.id], "")
    IN  IF ~ExecuteOrDryRun(dryRun)
        THEN Outcome(WithMsg(ctx, "UpdateWorkflow", wf.id), result, "")
        ELSE At(IndexOfId(ctx.remote, wf.id))

getExistingTagsMapEmpty(registry) == EmptyMap

\* getExistingTagsMap: tag name -> tag id, a later tag of the same name wins
getExistingTagsMap(registry) ==
    LET named == {i \in 1..Len(registry) : registry[i].id # NoId}
    IN  [n \in {registry[i].name : i \in named} |->
            registry[CHOOSE i \in named :
                        registry[i].name = n
                        /\ \A j \in named : registry[j].name = n => j <= i].id]

RECURSIVE TagLoop(_, _, _, _, _)
\* the loop of HandleTagUpdates over *workflow.Tags, from index i on;
\* acc is [ctx, tagIDs, existingTags, err]
TagLoop(acc, tags, i, dryRun, fail) ==
    IF i > Len(tags) \/ acc.err # "" THEN acc
    ELSE LET NewTag(name, id) ==
                [acc EXCEPT
                    !.ctx = [WithCall(@, "CreateTag", id, TRUE) EXCEPT
                                !.tags = Append(@, Tag(id, name, 1, 1)),
                                !.gen = @ + 1],
                    !.tagIDs = Append(@, id),
                    !.existingTags = (name :> id) @@ @]
             One(tag) ==
                IF tag.id # NoId
                THEN [acc EXCEPT !.tagIDs = Append(@, tag.id)]
                ELSE IF dryRun
                THEN [acc EXCEPT !.ctx = WithMsg(@, "CreateTag", NoId)]
                ELSE IF tag.name \in DOMAIN acc.existingTags
                THEN [acc EXCEPT !.tagIDs = Append(@, acc.existingTags[tag.name])]
                ELSE IF ~ExecuteOrDryRun(dryRun)
                THEN [acc EXCEPT !.ctx = WithMsg(@, "CreateTag", NoId)]
                ELSE IF Fails(fail, "CreateTag", NoId)
                THEN [acc EXCEPT !.ctx = WithCall(@, "CreateTag", NoId, FALSE),
                                 !.err = "createTag"]
                ELSE NewTag(tag.name, GenTagId(acc.ctx.gen))
         IN  TagLoop(One(tags[i]), tags, i + 1, dryRun, fail)

\* HandleTagUpdates: [ctx, err]
HandleTagUpdates(ctx, wf, workflowID, dryRun, fail) ==
    LET Put(c, tagIDs, i) ==
            IF \/ Fails(fail, "UpdateWorkflowTags", NoId)
               \/ i = 0
               \/ \E k \in 1..Len(tagIDs) : IndexOfId(c.tags, tagIDs[k]) = 0
            THEN [ctx |-> WithCall(c, "UpdateWorkflowTags", workflowID, FALSE),
                  err |-> "updateTags"]
            ELSE [ctx |-> [WithCall(c, "UpdateWorkflowTags", workflowID, TRUE) EXCEPT
                             !.remote[i].tags = ServerTagsOf(c.tags, tagIDs)],
                  err |-> ""]
        Finish(done) ==
            IF done.err # "" THEN [ctx |-> done.ctx, err |-> done.err]
            ELSE IF Len(done.tagIDs) = 0 /\ ~dryRun THEN [ctx |-> done.ctx, err |-> ""]
            ELSE IF ~ExecuteOrDryRun(dryRun)
            THEN [ctx |-> WithMsg(done.ctx, "UpdateWorkflowTags", workflowID), err |-> ""]
            ELSE Put(done.ctx, done.tagIDs, IndexOfId(done.ctx.remote, workflowID))
    IN  IF ~HasTags(wf) THEN [ctx |-> ctx, err |-> ""]
        ELSE IF ~dryRun /\ Fails(fail, "GetTags", NoId)
        THEN [ctx |-> ctx, err |-> "getTags"]
        ELSE Finish(TagLoop([ctx |-> ctx, tagIDs |-> <<>>,
                             existingTags |-> IF dryRun THEN EmptyMap
                                              ELSE getExistingTagsMap(ctx.tags),
                             err |-> ""],
                            wf.tags[1], 1, dryRun, fail))

\* the fallback of processActivationAndTags when the remote workflow is not
\* consulted: a created workflow, or a failed fetch
ChangesFromLocal(wf) ==
    [NoChanges EXCEPT !.NeedsActivation = (wf.active = "true"),
                      !.NeedsTagsUpdate = HasTags(wf)]

ActivationCallNever(wf, changes) == "none"

\* which activation call processActivationAndTags makes
ActivationCall(wf, changes) ==
    IF wf.active = "nil" THEN "none"
    ELSE IF wf.active = "true" /\ changes.NeedsActivation THEN "ActivateWorkflow"
    ELSE IF wf.active = "false" /\ changes.NeedsDeactivation THEN "DeactivateWorkflow"
    ELSE "none"

\* processActivationAndTags: activation or deactivation, then tags
processActivationAndTags(ctx, wf, result, dryRun, fail) ==
    LET workflowID == result.WorkflowID
        Tagged(tg, res) == Outcome(tg.ctx, res, tg.err)
        \* the tag step, after the activation step ended in act = [ctx, err]
        Tags(act, res, changes) ==
            IF act.err # "" THEN Outcome(act.ctx, res, act.err)
            ELSE IF changes.NeedsTagsUpdate /\ HasTags(wf)
            THEN Tagged(HandleTagUpdates(act.ctx, wf, workflowID, dryRun, fail), res)
            ELSE Outcome(act.ctx, res, "")
        \* the activation step: [ctx, err]
        Activation(op, i) ==
            IF op = "none" THEN [ctx |-> ctx, err |-> ""]
            ELSE IF ~ExecuteOrDryRun(dryRun)
            THEN [ctx |-> WithMsg(ctx, op, workflowID), err |-> ""]
            ELSE IF Fails(fail, op, NoId) \/ i = 0
            THEN [ctx |-> WithCall(ctx, op, workflowID, FALSE), err |-> "activation"]
            ELSE [ctx |-> [WithCall(ctx, op, workflowID, TRUE) EXCEPT
                             !.remote[i].active =
                                IF op = "ActivateWorkflow" THEN "true" ELSE "false"],
                  err |-> ""]
        Apply(changes, res) ==
            Tags(Activation(ActivationCall(wf, changes), IndexOfId(ctx.remote, workflowID)),
                 res, changes)
        Fetched(get) ==
            Apply(IF result.Created \/ get.err # "" THEN ChangesFromLocal(wf)
                  ELSE DetectWorkflowChanges(wf, Some(get.wf)),
                  [result EXCEPT !.warned = (~result.Created /\ get.err # "")])
    IN  IF result.WorkflowID = NoId THEN Outcome(ctx, result, "")
        ELSE Fetched(GetWorkflow(ctx.remote, workflowID, Fails(fail, "GetWorkflow2", NoId)))

\* processWorkflowPayload: content sync, then processActivationAndTags
processWorkflowPayload(ctx, wf, path, dryRun, fail) ==
    LET Then(out) ==
            IF out.result.err # "" THEN out
            ELSE processActivationAndTags(out.ctx, wf, out.result, dryRun, fail)
        Known(get, result) ==
            IF get.err # "" THEN CreateWorkflowWithID(ctx, wf, dryRun, result, fail)
            ELSE IF ~DetectWorkflowChanges(wf, Some(get.wf)).NeedsUpdate
            THEN Outcome(ctx, [result EXCEPT !.WorkflowID = get.wf.id], "")
            ELSE UpdateWorkflow(ctx, wf, dryRun, result, fail)
        Fetched(get, result) ==
            Known(get, [result EXCEPT !.fetch = IF get.err = "" THEN "ok" ELSE get.err])
        Start(result) ==
            IF wf.id = NoId THEN CreateWorkflow(ctx, wf, dryRun, result, fail)
            ELSE Fetched(GetWorkflow(ctx.remote, wf.id, Fails(fail, "GetWorkflow1", NoId)),
                         result)
    IN  Then(Start([Result(path, wf.name) EXCEPT !.localId = wf.id,
                                                  !.localActive = wf.active]))

(***************************************************************************)
(* Local files.  files maps each path of the directory to the file's       *)
(* content: whether it parses, the workflow it holds, and the originalName *)
(* field (<<>> when the field is absent).                                  *)
(***************************************************************************)
File(valid, wf, originalName) ==
    [valid |-> valid, wf |-> wf, originalName |-> originalName]

\* ExtractWorkflowIDFromFile: [err, id]
ExtractWorkflowIDFromFile(fs, path) ==
    IF path \notin DOMAIN fs THEN [err |-> "read", id |-> NoId]
    ELSE IF ~fs[path].valid THEN [err |-> "parse", id |-> NoId]
    ELSE [err |-> "", id |-> fs[path].wf.id]

\* readWorkflowFromFile: [err, wf]
readWorkflowFromFile(fs, path) ==
    IF path \notin DOMAIN fs THEN [err |-> "read", wf |-> NoWorkflow]
    ELSE IF ~fs[path].valid THEN [err |-> "parse", wf |-> NoWorkflow]
    ELSE [err |-> "", wf |-> fs[path].wf]

\* ProcessWorkflowFile
ProcessWorkflowFile(ctx, fs, path, dryRun, fail) ==
    LET Read(read) ==
            IF read.err # "" THEN Outcome(ctx, Result(path, <<>>), read.err)
            ELSE processWorkflowPayload(ctx, read.wf, path, dryRun, fail)
    IN  Read(readWorkflowFromFile(fs, path))

\* FindWorkflow: [err, id] of the first workflow of that name
FindWorkflow(name, workflows) ==
    IF \E i \in 1..Len(workflows) : workflows[i].name = name
    THEN [err |-> "",
          id |-> workflows[CHOOSE i \in 1..Len(workflows) :
                              workflows[i].name = name
                              /\ \A j \in 1..(i - 1) : workflows[j].name # name].id]
    ELSE [err |-> "nameNotFound", id |-> NoId]

\* resolveWorkflowIDByName: [err, id]
resolveWorkflowIDByName(remote, name, fail) ==
    IF Fails(fail, "GetWorkflows", NoId) THEN [err |-> "transport", id |-> NoId]
    ELSE IF Len(remote) = 0 THEN [err |-> "noWorkflows", id |-> NoId]
    ELSE FindWorkflow(name, remote)

\* syncSingleWorkflowFile
syncSingleWorkflowFile(ctx, fs, path, dryRun, workflowID, workflowName, fail) ==
    LET byName == workflowID = NoId /\ workflowName # <<>>
        Read(read, resolved) ==
            IF read.err # "" THEN Outcome(ctx, Result(path, <<>>), read.err)
            ELSE IF byName /\ resolved.err # ""
            THEN Outcome(ctx, Result(path, <<>>), resolved.err)
            ELSE processWorkflowPayload(
                    ctx,
                    [read.wf EXCEPT !.id = IF workflowID # NoId THEN workflowID
                                           ELSE IF byName THEN resolved.id
                                           ELSE @],
                    path, dryRun, fail)
    IN  Read(readWorkflowFromFile(fs, path),
             resolveWorkflowIDByName(ctx.remote, workflowName, fail))

PruneDryRunIgnored(flags) == FALSE

\* the dryRun of PruneWorkflows: false unless the flag was given
PruneDryRun(flags) == IF flags.dryRunChanged THEN flags.dryRun ELSE FALSE

PruneCandidateAll(localIDs, wf) == wf.id \notin localIDs

\* PruneWorkflows deletes the remote workflow wf
PruneCandidate(localIDs, wf) ==
    wf.id # NoId /\ wf.id \notin localIDs

RECURSIVE PruneLoopBestEffort(_, _, _, _, _, _)
PruneLoopBestEffort(ctx, list, i, localIDs, dryRun, fail) ==
    IF i > Len(list) THEN [ctx |-> ctx, err |-> ""]
    ELSE IF ~ExecuteOrDryRun(dryRun) /\ PruneCandidate(localIDs, list[i])
    THEN PruneLoopBestEffort(WithMsg(ctx, "DeleteWorkflow", list[i].id), list, i + 1,
                             localIDs, dryRun, fail)
    ELSE IF /\ PruneCandidate(localIDs, list[i])
            /\ \/ Fails(fail, "DeleteWorkflow", list[i].id)
               \/ IndexOfId(ctx.remote, list[i].id) = 0
    THEN PruneLoopBestEffort(WithCall(ctx, "DeleteWorkflow", list[i].id, FALSE), list,
                             i + 1, localIDs, dryRun, fail)
    ELSE PruneLoopBestEffort(IF PruneCandidate(localIDs, list[i])
                             THEN [WithCall(ctx, "DeleteWorkflow", list[i].id, TRUE) EXCEPT
                                      !.remote = RemoveId(@, list[i].id)]
                             ELSE ctx,
                             list, i + 1, localIDs, dryRun, fail)

RECURSIVE PruneLoop(_, _, _, _, _, _)
\* the loop of PruneWorkflows over the fetched list, from index i on: [ctx, err]
PruneLoop(ctx, list, i, localIDs, dryRun, fail) ==
    IF i > Len(list) THEN [ctx |-> ctx, err |-> ""]
    ELSE IF ~ExecuteOrDryRun(dryRun) /\ PruneCandidate(localIDs, list[i])
    THEN PruneLoop(WithMsg(ctx, "DeleteWorkflow", list[i].id), list, i + 1, localIDs,
                   dryRun, fail)
    ELSE IF /\ PruneCandidate(localIDs, list[i])
            /\ \/ Fails(fail, "DeleteWorkflow", list[i].id)
               \/ IndexOfId(ctx.remote, list[i].id) = 0
    THEN [ctx |-> WithCall(ctx, "DeleteWorkflow", list[i].id, FALSE), err |-> "delete"]
    ELSE PruneLoop(IF PruneCandidate(localIDs, list[i])
                   THEN [WithCall(ctx, "DeleteWorkflow", list[i].id, TRUE) EXCEPT
                            !.remote = RemoveId(@, list[i].id)]
                   ELSE ctx,
                   list, i + 1, localIDs, dryRun, fail)

\* PruneWorkflows: [ctx, err]
PruneWorkflows(ctx, flags, localIDs, fail) ==
    IF Fails(fail, "GetWorkflows", NoId) THEN [ctx |-> ctx, err |-> "transport"]
    ELSE PruneLoop(ctx, ctx.remote, 1, localIDs, PruneDryRun(flags), fail)

(***************************************************************************)
(* Write-back of remote state into local files (cmd/workflows/refresh.go)  *)
(***************************************************************************)
RECURSIVE ExtractLoopFirstWins(_, _, _, _)
ExtractLoopFirstWins(fs, entries, i, localFiles) ==
    IF i > Len(entries) THEN localFiles
    ELSE LET path == entries[i]
             Keep(ex) ==
                IF ex.err # "" \/ ex.id = NoId \/ ex.id \in DOMAIN localFiles
                THEN localFiles
                ELSE (ex.id :> path) @@ localFiles
         IN  ExtractLoopFirstWins(fs, entries, i + 1,
                                  Keep(ExtractWorkflowIDFromFile(fs, path)))

RECURSIVE ExtractLoop(_, _, _, _)
\* the loop of extractLocalWorkflows over the sorted entries, from index i on
ExtractLoop(fs, entries, i, localFiles) ==
    IF i > Len(entries) THEN localFiles
    ELSE LET path == entries[i]
             Keep(ex) ==
                IF ex.err # "" \/ ex.id = NoId THEN localFiles
                ELSE IF ex.id \in DOMAIN localFiles
                THEN IF IsYamlExt(path.ext) /\ localFiles[ex.id].ext = ".json"
                     THEN (ex.id :> path) @@ localFiles
                     ELSE localFiles
                ELSE (ex.id :> path) @@ localFiles
         IN  ExtractLoop(fs, entries, i + 1, Keep(ExtractWorkflowIDFromFile(fs, path)))

\* extractLocalWorkflows: workflow id -> file path
extractLocalWorkflows(fs) == ExtractLoop(fs, SortPaths(DOMAIN fs), 1, EmptyMap)

\* determineFilePathAndAction: [path, action]
determineFilePathAndAction(wf, localFiles, output, overwrite) ==
    LET exists == wf.id \in DOMAIN localFiles
        extension ==
            IF exists /\ output = ""
            THEN IF IsYamlExt(localFiles[wf.id].ext) THEN localFiles[wf.id].ext ELSE ".json"
            ELSE IF output = "yaml" \/ output = "yml" THEN ".yaml"
            ELSE ".json"
        Decide(defaultPath) ==
            IF ~exists \/ overwrite THEN [path |-> defaultPath, action |-> "Creating"]
            ELSE IF (output = "yaml" \/ output = "yml") /\ localFiles[wf.id].ext = ".json"
            THEN [path |-> defaultPath, action |-> "Converting"]
            ELSE IF output = "json" /\ IsYamlExt(localFiles[wf.id].ext)
            THEN [path |-> defaultPath, action |-> "Converting"]
            ELSE [path |-> localFiles[wf.id], action |-> "Updating"]
    IN  Decide(Path(SanitizeFilename(wf.name), extension))

\* serializeWorkflow: the content written for the workflow
serializeWorkflow(wf, minimal, originalName) ==
    File(TRUE, IF minimal THEN CleanWorkflow(wf) ELSE wf, originalName)

extractOriginalNameFromFileNever(fs, path) == [name |-> <<>>, ok |-> FALSE]

\* extractOriginalNameFromFile: [name, ok]
extractOriginalNameFromFile(fs, path) ==
    IF path \in DOMAIN fs /\ fs[path].valid /\ fs[path].originalName # <<>>
    THEN [name |-> fs[path].originalName, ok |-> TRUE]
    ELSE [name |-> <<>>, ok |-> FALSE]

\* workflowNeedsUpdate
workflowNeedsUpdate(fs, filePath, existingPath, content, minimal) ==
    IF filePath \notin DOMAIN fs THEN TRUE
    ELSE IF existingPath.ext # filePath.ext THEN TRUE
    ELSE IF ~fs[filePath].valid THEN TRUE
    ELSE DetectWorkflowDrift(fs[filePath].wf, content.wf, minimal)

NoPath == Path(<<>>, "")

\* a path that holds no file
NoFile == File(FALSE, NoWorkflow, <<>>)

\* one os.WriteFile of the write-back: the path written, the workflow, the
\* action announced, the path that tracked the workflow before (NoPath
\* when no local file did), what that path held, and the content written
Write(path, id, action, tracked, before, content) ==
    [path |-> path, id |-> id, action |-> action, tracked |-> tracked,
     before |-> before, content |-> content]

\* the tail of processWorkflow and of refreshWorkflowToFile: the file is
\* left alone, or written
Store(st, wf, path, action, existingPath, found, dryRun, minimal) ==
    LET Put(content) ==
            IF \/ dryRun
               \/ /\ action = "Updating"
                  /\ found.ok
                  /\ ~workflowNeedsUpdate(st.fs, path, existingPath, content, minimal)
            THEN st
            ELSE [st EXCEPT !.fs = (path :> content) @@ @,
                            !.writes = Append(@, Write(path, wf.id, action, existingPath,
                                                       IF existingPath \in DOMAIN st.fs
                                                       THEN st.fs[existingPath]
                                                       ELSE NoFile,
                                                       content))]
    IN  Put(serializeWorkflow(wf, minimal, IF found.ok THEN found.name ELSE wf.name))

\* processWorkflow: [fs, writes] after handling one fetched workflow
processWorkflow(st, wf, localFiles, dryRun, overwrite, output, minimal) ==
    LET Tracked(target, existingPath) ==
            Store(st, wf, target.path, target.action, existingPath,
                  extractOriginalNameFromFile(st.fs, existingPath), dryRun, minimal)
    IN  IF wf.id = NoId THEN st
        ELSE Tracked(determineFilePathAndAction(wf, localFiles, output, overwrite),
                     IF wf.id \in DOMAIN localFiles THEN localFiles[wf.id] ELSE NoPath)

\* refreshWorkflowToFile: [fs, writes] after refreshing one file in place
refreshWorkflowToFile(st, wf, filePath, dryRun, minimal) ==
    IF wf.id = NoId THEN st
    ELSE IF filePath \in DOMAIN st.fs
    THEN Store(st, wf, filePath, "Updating", filePath,
               extractOriginalNameFromFile(st.fs, filePath), dryRun, minimal)
    ELSE Store(st, wf, filePath, "Creating", NoPath,
               extractOriginalNameFromFile(st.fs, filePath), dryRun, minimal)

RECURSIVE RefreshAllLoop(_, _, _, _, _, _, _, _)
\* the loop of RefreshWorkflowsWithClient over the fetched list
RefreshAllLoop(st, list, i, localFiles, dryRun, overwrite, output, minimal) ==
    IF i > Len(list) THEN st
    ELSE RefreshAllLoop(
            processWorkflow(st, list[i], localFiles, dryRun, overwrite, output, minimal),
            list, i + 1, localFiles, dryRun, overwrite, output, minimal)

RECURSIVE RefreshTrackedLoop(_, _, _, _, _, _, _, _, _, _)
\* the loop of RefreshWorkflowsWithClient over the keys of localFiles, in
\* the order the map iteration happens to yield them
RefreshTrackedLoop(st, remote, order, i, localFiles, dryRun, overwrite, output, minimal, fail) ==
    IF i > Len(order) THEN st
    ELSE LET One(get) ==
                IF get.err # "" THEN [st EXCEPT !.warned = TRUE]
                ELSE processWorkflow(st, get.wf, localFiles, dryRun, overwrite, output,
                                     minimal)
         IN  RefreshTrackedLoop(
                One(GetWorkflow(remote, order[i],
                                Fails(fail, "GetWorkflowRefresh", order[i]))),
                remote, order, i + 1, localFiles, dryRun, overwrite, output, minimal, fail)

\* RefreshWorkflowsWithClient: [fs, writes, warned, err]
RefreshWorkflowsWithClient(fs, remote, order, dryRun, overwrite, output, minimal, allFlag, fail) ==
    LET st == [fs |-> fs, writes |-> <<>>, warned |-> FALSE, err |-> ""]
        With(localFiles) ==
            IF allFlag \/ DOMAIN localFiles = {}
            THEN IF Fails(fail, "GetWorkflows", NoId) THEN [st EXCEPT !.err = "transport"]
                 ELSE RefreshAllLoop(st, remote, 1, localFiles, dryRun, overwrite, output,
                                     minimal)
            ELSE RefreshTrackedLoop(st, remote, order, 1, localFiles, dryRun, overwrite,
                                    output, minimal, fail)
    IN  With(extractLocalWorkflows(fs))

\* the orders in which a Go map over these keys may be iterated
Orders(keys) ==
    {o \in [1..Cardinality(keys) -> keys] : \A i, j \in 1..Cardinality(keys) : o[i] = o[j] => i = j}

(***************************************************************************)
(* The commands.  A run starts from a working directory, an n8n instance   *)
(* and a command line; the command is then executed, and may be repeated   *)
(* with the same command line.  At most one remote call of a run is made   *)
(* to fail.                                                                *)
(***************************************************************************)
MaxFiles == 2
MaxPasses == 2

LocalWorkflow(id, name, active, tags) ==
    Workflow(id, name, 0, "empty", active, tags, 0, 0, 0)

RemoteWorkflow(id, name, active, tags) ==
    Workflow(id, name, 0, "empty", active, tags, 1, 1, 1)

\* contents a workflow file may have: a new workflow, a tracked one, a
\* tracked one renamed and deactivated locally, one whose id the instance
\* does not know, and a file that does not parse
FileChoices ==
    {File(TRUE, LocalWorkflow(NoId, NameA, "nil", None), <<>>),
     File(TRUE, LocalWorkflow(1, NameA, "true", None), NameA),
     File(TRUE, LocalWorkflow(1, NameB, "false", Some(<<Tag(NoId, "y", 0, 0)>>)), <<>>),
     File(TRUE, LocalWorkflow(9, NameB, "true", Some(<<Tag(51, "x", 0, 0)>>)), <<>>),
     File(FALSE, NoWorkflow, <<>>)}

\* A.json, c.yaml (a file name of the user's choosing), B.json
Paths == {Path(NameA, ".json"), Path(<<99>>, ".yaml"), Path(NameB, ".json")}

Directories ==
    UNION {[S -> FileChoices] :
            S \in {T \in SUBSET Paths : Cardinality(T) \in 1..MaxFiles}}

RemoteChoices ==
    {<<>>,
     <<RemoteWorkflow(1, NameA, "false", Some(<<>>))>>,
     <<RemoteWorkflow(1, NameB, "true", Some(<<Tag(51, "x", 1, 1)>>)),
       RemoteWorkflow(3, NameA, "false", Some(<<>>))>>}

Args(command, file, dryRun, prune, refresh, allFlag, output, overwrite, id, name) ==
    [command |-> command, file |-> file, dryRun |-> dryRun, dryRunChanged |-> dryRun,
     prune |-> prune, refresh |-> refresh, all |-> allFlag, output |-> output,
     overwrite |-> overwrite, noTruncate |-> FALSE, id |-> id, name |-> name]

\* sync --directory
SyncDirectoryArgs ==
    {Args("sync", NoPath, dryRun, prune, refresh, FALSE, "", FALSE, NoId, <<>>) :
        dryRun \in BOOLEAN, prune \in BOOLEAN, refresh \in BOOLEAN}
    \cup {Args("sync", NoPath, FALSE, FALSE, TRUE, TRUE, "", FALSE, NoId, <<>>),
          Args("sync", NoPath, FALSE, FALSE, TRUE, FALSE, "yaml", FALSE, NoId, <<>>)}

\* sync --file, alone or with --id or --name
SyncFileArgs(fs) ==
    {Args("sync", file, FALSE, FALSE, TRUE, FALSE, "", FALSE, sel[1], sel[2]) :
        file \in DOMAIN fs, sel \in {<<NoId, <<>>>>, <<1, <<>>>>, <<NoId, NameB>>}}
    \cup {Args("sync", file, dryRun, FALSE, ~dryRun, FALSE, "", FALSE, NoId, <<>>) :
            file \in DOMAIN fs, dryRun \in BOOLEAN}

\* refresh --directory
RefreshArgs ==
    {Args("refresh", NoPath, FALSE, FALSE, FALSE, allFlag, output, overwrite, NoId, <<>>) :
        allFlag \in BOOLEAN, output \in {"json", "yaml"}, overwrite \in BOOLEAN}
    \cup {Args("refresh", NoPath, dryRun, FALSE, FALSE, FALSE, "", FALSE, NoId, <<>>) :
            dryRun \in BOOLEAN}

ArgChoices(fs) == SyncDirectoryArgs \cup SyncFileArgs(fs) \cup RefreshArgs

Fault(op, id) == {FailTok(op, id)}

\* the calls of one file's processing that may be made to fail
FileFaults ==
    {{}} \cup {Fault(op, NoId) :
                op \in {"GetWorkflow1", "GetWorkflow2", "CreateWorkflow", "UpdateWorkflow",
                        "ActivateWorkflow", "DeactivateWorkflow", "GetTags", "CreateTag",
                        "UpdateWorkflowTags", "GetWorkflows"}}

PruneFaults ==
    {{}, Fault("GetWorkflows", NoId)}
    \cup {Fault("DeleteWorkflow", n8nWorkflows[i].id) : i \in 1..Len(n8nWorkflows)}

RefreshFaults ==
    {{}, Fault("GetWorkflows", NoId)}
    \cup {Fault("GetWorkflowRefresh", n8nWorkflows[i].id) : i \in 1..Len(n8nWorkflows)}

SyncIdle ==
    /\ n8nWorkflows = <<>>
    /\ serverTags = <<>>
    /\ gen = 0
    /\ files = EmptyMap
    /\ args = Args("none", NoPath, FALSE, FALSE, FALSE, FALSE, "", FALSE, NoId, <<>>)
    /\ pc = "done"
    /\ pass = MaxPasses
    /\ written = {}
    /\ scan = <<>>
    /\ idx = 1
    /\ localWorkflowIDs = {}
    /\ updatedWorkflows = {}
    /\ calls = <<>>
    /\ msgs = <<>>
    /\ results = <<>>
    /\ writes = <<>>
    /\ errored = FALSE
    /\ warned = FALSE
    /\ faulty = FALSE

SyncInit ==
    /\ n8nWorkflows \in RemoteChoices
    /\ serverTags = <<Tag(51, "x", 1, 1)>>
    /\ gen = 0
    /\ files \in Directories
    /\ args \in ArgChoices(files)
    /\ pc = "start"
    /\ pass = 1
    /\ written = {}
    /\ scan = <<>>
    /\ idx = 1
    /\ localWorkflowIDs = {}
    /\ updatedWorkflows = {}
    /\ calls = <<>>
    /\ msgs = <<>>
    /\ results = <<>>
    /\ writes = <<>>
    /\ errored = FALSE
    /\ warned = FALSE
    /\ faulty = FALSE

\* the instance and the logs as the executor threads them
Context == Ctx(n8nWorkflows, serverTags, gen, calls, msgs, warned)

\* the effect of the executor on the instance and the logs
Commit(ctx) ==
    /\ n8nWorkflows' = ctx.remote
    /\ serverTags' = ctx.tags
    /\ gen' = ctx.gen
    /\ calls' = ctx.calls
    /\ msgs' = ctx.msgs

\* a call is made to fail: at most once in a run, and only a call whose
\* failure changes what the step does (hit says so)
Inject(fail, hit) ==
    /\ fail # {} => (~faulty /\ hit)
    /\ faulty' = (faulty \/ fail # {})

\* SyncWorkflows, directory mode: the directory is read once
SyncDirectory ==
    /\ pc = "start"
    /\ args.command = "sync"
    /\ args.file = NoPath
    /\ scan' = SortPaths(DOMAIN files)
    /\ idx' = 1
    /\ localWorkflowIDs' = {}
    /\ updatedWorkflows' = {}
    /\ pc' = "files"
    /\ UNCHANGED <<serverVars, files, args, pass, written, calls, msgs, results, writes, errored,
                   warned, faulty, fetchVars, planVars, utilVars>>

ProcessDirFileAbort(fail) ==
    /\ pc = "files"
    /\ idx <= Len(scan)
    /\ LET Track(ex) ==
                IF ex.err = "" /\ ex.id # NoId THEN localWorkflowIDs \cup {ex.id}
                ELSE localWorkflowIDs
           Step(out, plain) ==
                /\ Inject(fail, out # plain)
                /\ Commit(out.ctx)
                /\ results' = Append(results, out.result)
                /\ errored' = (errored \/ out.result.err # "")
                /\ warned' = (warned \/ out.result.warned)
                /\ updatedWorkflows' =
                        IF out.result.err = "" /\ out.result.WorkflowID # NoId
                        THEN updatedWorkflows \cup {out.result.WorkflowID}
                        ELSE updatedWorkflows
                /\ pc' = IF idx = Len(scan) \/ out.result.err # "" THEN "prune" ELSE "files"
       IN  /\ localWorkflowIDs' = Track(ExtractWorkflowIDFromFile(files, scan[idx]))
           /\ Step(ProcessWorkflowFile(Context, files, scan[idx], args.dryRun, fail),
                   ProcessWorkflowFile(Context, files, scan[idx], args.dryRun, {}))
    /\ idx' = idx + 1
    /\ UNCHANGED <<files, args, pass, written, scan, writes, fetchVars, planVars, utilVars>>

\* SyncWorkflows, directory mode: one iteration of the loop over the files
ProcessDirFile(fail) ==
    /\ pc = "files"
    /\ idx <= Len(scan)
    /\ LET Track(ex) ==
                IF ex.err = "" /\ ex.id # NoId THEN localWorkflowIDs \cup {ex.id}
                ELSE localWorkflowIDs
           Step(out, plain) ==
                /\ Inject(fail, out # plain)
                /\ Commit(out.ctx)
                /\ results' = Append(results, out.result)
                /\ errored' = (errored \/ out.result.err # "")
                /\ warned' = (warned \/ out.result.warned)
                /\ updatedWorkflows' =
                        IF out.result.err = "" /\ out.result.WorkflowID # NoId
                        THEN updatedWorkflows \cup {out.result.WorkflowID}
                        ELSE updatedWorkflows
       IN  /\ localWorkflowIDs' = Track(ExtractWorkflowIDFromFile(files, scan[idx]))
           /\ Step(ProcessWorkflowFile(Context, files, scan[idx], args.dryRun, fail),
                   ProcessWorkflowFile(Context, files, scan[idx], args.dryRun, {}))
    /\ idx' = idx + 1
    /\ pc' = IF idx = Len(scan) THEN "prune" ELSE "files"
    /\ UNCHANGED <<files, args, pass, written, scan, writes, fetchVars, planVars, utilVars>>

\* SyncWorkflows, directory mode: the prune phase
PruneStep(fail) ==
    /\ pc = "prune"
    /\ LET Step(pr, plain) ==
                /\ Inject(fail, pr # plain)
                /\ Commit(pr.ctx)
                /\ errored' = (errored \/ pr.err # "")
       IN  IF args.prune
           THEN Step(PruneWorkflows(Context, args, localWorkflowIDs, fail),
                     PruneWorkflows(Context, args, localWorkflowIDs, {}))
           ELSE /\ fail = {}
                /\ UNCHANGED <<serverVars, calls, msgs, errored, faulty>>
    /\ pc' = "refresh"
    /\ UNCHANGED <<files, args, pass, written, scan, idx, localWorkflowIDs, updatedWorkflows,
                   results, writes, warned, fetchVars, planVars, utilVars>>

\* SyncWorkflows, directory mode: the write-back that ends the pass
RefreshStep(order, fail) ==
    /\ pc = "refresh"
    /\ LET Step(r, plain) ==
                /\ Inject(fail, r # plain)
                /\ files' = r.fs
                /\ writes' = r.writes
                /\ errored' = (errored \/ r.err # "")
                /\ warned' = (warned \/ r.warned)
       IN  IF args.refresh /\ ~args.dryRun /\ updatedWorkflows # {}
           THEN /\ order \in Orders(DOMAIN extractLocalWorkflows(files))
                /\ Step(RefreshWorkflowsWithClient(files, n8nWorkflows, order, FALSE, TRUE,
                                                   args.output, TRUE, args.all, fail),
                        RefreshWorkflowsWithClient(files, n8nWorkflows, order, FALSE, TRUE,
                                                   args.output, TRUE, args.all, {}))
           ELSE /\ fail = {}
                /\ order = <<>>
                /\ UNCHANGED <<files, writes, errored, warned, faulty>>
    /\ pc' = "done"
    /\ UNCHANGED <<serverVars, args, pass, written, scan, idx, localWorkflowIDs, updatedWorkflows,
                   calls, msgs, results, fetchVars, planVars, utilVars>>

\* SyncWorkflows, single-file mode
SyncSingleFile(fail) ==
    /\ pc = "start"
    /\ args.command = "sync"
    /\ args.file # NoPath
    /\ LET st == [fs |-> files, writes |-> <<>>]
           Written(r, failed) ==
                /\ files' = r.fs
                /\ writes' = r.writes
                /\ errored' = failed
           Refresh(out, refreshes, get) ==
                Written(IF refreshes /\ get.err = ""
                        THEN refreshWorkflowToFile(st, get.wf, args.file, FALSE, TRUE)
                        ELSE st,
                        errored \/ out.result.err # "" \/ (refreshes /\ get.err # ""))
           Step(out, plain, refreshes) ==
                /\ Inject(fail, out # plain
                                \/ (refreshes /\ Fails(fail, "GetWorkflowRefresh",
                                                       out.result.WorkflowID)))
                /\ Commit(out.ctx)
                /\ results' = Append(results, out.result)
                /\ warned' = (warned \/ out.result.warned)
                /\ Refresh(out, refreshes,
                           GetWorkflow(out.ctx.remote, out.result.WorkflowID,
                                       Fails(fail, "GetWorkflowRefresh",
                                             out.result.WorkflowID)))
           Synced(out, plain) ==
                Step(out, plain,
                     /\ out.result.err = ""
                     /\ args.refresh
                     /\ ~args.dryRun
                     /\ out.result.WorkflowID # NoId)
       IN  Synced(syncSingleWorkflowFile(Context, files, args.file, args.dryRun, args.id,
                                         args.name, fail),
                  syncSingleWorkflowFile(Context, files, args.file, args.dryRun, args.id,
                                         args.name, {}))
    /\ pc' = "done"
    /\ UNCHANGED <<args, pass, written, scan, idx, localWorkflowIDs, updatedWorkflows, fetchVars,
                   planVars, utilVars>>

\* RefreshWorkflows, directory mode
RefreshDirectory(order, fail) ==
    /\ pc = "start"
    /\ args.command = "refresh"
    /\ order \in Orders(DOMAIN extractLocalWorkflows(files))
    /\ LET Step(r, plain) ==
                /\ Inject(fail, r # plain)
                /\ files' = r.fs
                /\ writes' = r.writes
                /\ errored' = (errored \/ r.err # "")
                /\ warned' = (warned \/ r.warned)
       IN  Step(RefreshWorkflowsWithClient(files, n8nWorkflows, order, args.dryRun,
                                           args.overwrite, args.output, ~args.noTruncate,
                                           args.all, fail),
                RefreshWorkflowsWithClient(files, n8nWorkflows, order, args.dryRun,
                                           args.overwrite, args.output, ~args.noTruncate,
                                           args.all, {}))
    /\ pc' = "done"
    /\ UNCHANGED <<serverVars, args, pass, written, scan, idx, localWorkflowIDs, updatedWorkflows,
                   calls, msgs, results, fetchVars, planVars, utilVars>>

\* the same command line is run once more, after a run in which no call failed
Repeat ==
    /\ pc = "done"
    /\ ~faulty
    /\ pass < MaxPasses
    /\ pass' = pass + 1
    /\ written' = written \cup {writes[i].id : i \in 1..Len(writes)}
    /\ pc' = "start"
    /\ calls' = <<>>
    /\ msgs' = <<>>
    /\ results' = <<>>
    /\ writes' = <<>>
    /\ UNCHANGED <<serverVars, files, args, scan, idx, localWorkflowIDs, updatedWorkflows,
                   errored, warned, faulty, fetchVars, planVars, utilVars>>

(***************************************************************************)
(* The prune phase on its own: SyncWorkflows has processed the files and   *)
(* calls PruneWorkflows with the identifiers it found in them; the         *)
(* instance may list workflows that carry no identifier.                   *)
(***************************************************************************)
PruneListed ==
    {RemoteWorkflow(NoId, NameA, "false", None),
     RemoteWorkflow(1, NameA, "false", None),
     RemoteWorkflow(3, NameB, "true", None)}

PruneRemotes == UNION {Orders(ws) : ws \in SUBSET PruneListed}

PruneInit ==
    /\ n8nWorkflows \in PruneRemotes
    /\ serverTags = <<>>
    /\ gen = 0
    /\ files = EmptyMap
    /\ args \in {Args("sync", NoPath, dryRun, TRUE, TRUE, FALSE, "", FALSE, NoId, <<>>) :
                    dryRun \in BOOLEAN}
    /\ pc = "prune"
    /\ pass = 1
    /\ written = {}
    /\ scan = <<>>
    /\ idx = 1
    /\ localWorkflowIDs \in SUBSET {1, 3}
    /\ updatedWorkflows = {}
    /\ calls = <<>>
    /\ msgs = <<>>
    /\ results = <<>>
    /\ writes = <<>>
    /\ errored = FALSE
    /\ warned = FALSE
    /\ faulty = FALSE

(***************************************************************************)
(* The helpers exercised on their own: SanitizeFilename applied again and  *)
(* again to a name, DetectWorkflowDrift applied to two workflows, and the  *)
(* loop of extractLocalWorkflows walked over a directory.                  *)
(***************************************************************************)
MaxNameLen == 4
MaxSanitize == 2
MaxEntries == 3

\* 'C' 'O' 'N' 'M' '1' '.' ' ' '/' '\' 'c'
NameRunes == {67, 79, 78, 77, 49, 46, 32, 47, 92, 99}

Names == UNION {[1..n -> NameRunes] : n \in 0..MaxNameLen}

SanitizeIdle ==
    /\ sanName = <<>>
    /\ sanResults = <<>>

SanitizeInit ==
    /\ sanName \in Names
    /\ sanResults = <<>>

\* SanitizeFilename applied to the name, then to its own result
Sanitize ==
    /\ Len(sanResults) < MaxSanitize
    /\ sanResults' = Append(sanResults,
                            SanitizeFilename(IF sanResults = <<>> THEN sanName
                                             ELSE sanResults[Len(sanResults)]))
    /\ UNCHANGED <<sanName, driftVars, indexVars, resolveVars, tagVars, fetchVars, planVars,
                   syncVars>>

\* the workflows handed to DetectWorkflowDrift
DriftWorkflows ==
    {Workflow(1, NameA, n, c, "nil", t, ca, ua, 0) :
        n \in {0, 1}, c \in {"nil", "empty", "wired"}, t \in PlanTags,
        ca \in {0, 1}, ua \in {0, 2}}

DriftIdle ==
    /\ driftActual = NoWorkflow
    /\ driftDesired = NoWorkflow
    /\ driftPc = "init"
    /\ hasDrift = FALSE

DriftInit ==
    /\ driftActual \in DriftWorkflows
    /\ driftDesired \in DriftWorkflows
    /\ driftPc = "init"
    /\ hasDrift = FALSE

\* One call of DetectWorkflowDrift(actual, desired, minimal).
DetectDrift(minimal) ==
    /\ driftPc = "init"
    /\ hasDrift' = DetectWorkflowDrift(driftActual, driftDesired, minimal)
    /\ driftPc' = IF minimal THEN "normalized" ELSE "exact"
    /\ UNCHANGED <<driftActual, driftDesired, sanVars, indexVars, resolveVars, tagVars,
                   fetchVars, planVars, syncVars>>

\* A.json, A.yaml, B.json, B.yml
IndexPaths ==
    {Path(NameA, ".json"), Path(NameA, ".yaml"), Path(NameB, ".json"), Path(NameB, ".yml")}

\* a file claiming no id, id 1 or id 2, and a file that does not parse
IndexContents ==
    {File(TRUE, LocalWorkflow(id, NameA, "nil", None), <<>>) : id \in {NoId, 1, 2}}
        \cup {File(FALSE, NoWorkflow, <<>>)}

IndexDirectories ==
    UNION {[ps -> IndexContents] :
            ps \in {qs \in SUBSET IndexPaths : Cardinality(qs) \in 1..MaxEntries}}

IndexIdle ==
    /\ indexDir = EmptyMap
    /\ indexEntries = <<>>
    /\ indexPos = 1
    /\ indexFiles = EmptyMap

\* extractLocalWorkflows after os.ReadDir: localFiles is empty
IndexInit ==
    /\ indexDir \in IndexDirectories
    /\ indexEntries = SortPaths(DOMAIN indexDir)
    /\ indexPos = 1
    /\ indexFiles = EmptyMap

\* extractLocalWorkflows: one iteration of the loop over the entries
IndexEntry ==
    /\ indexPos <= Len(indexEntries)
    /\ indexFiles' = ExtractLoop(indexDir, SubSeq(indexEntries, 1, indexPos), indexPos,
                                 indexFiles)
    /\ indexPos' = indexPos + 1
    /\ UNCHANGED <<indexDir, indexEntries, sanVars, driftVars, resolveVars, tagVars,
                   fetchVars, planVars, syncVars>>

\* the arguments of determineFilePathAndAction
ResolveArgs(wf, localFiles, output, overwrite) ==
    [wf |-> wf, localFiles |-> localFiles, output |-> output, overwrite |-> overwrite]

NoResolution == [path |-> NoPath, action |-> ""]

\* the workflow has id 1; no file tracks it, or one of custom.json (named
\* after nothing), A.yaml, A.yml does
ResolveChoices ==
    {ResolveArgs(RemoteWorkflow(1, name, "false", None), localFiles, output, overwrite) :
        name \in {NameA, NameB, <<65, 47, 66>>},
        localFiles \in {EmptyMap} \cup
                       {1 :> p : p \in {Path(<<99>>, ".json"), Path(NameA, ".yaml"),
                                        Path(NameA, ".yml")}},
        output \in {"", "json", "yaml", "yml"},
        overwrite \in BOOLEAN}

ResolveIdle ==
    /\ resolveArgs = ResolveArgs(NoWorkflow, EmptyMap, "", FALSE)
    /\ resolvePc = "init"
    /\ resolution = NoResolution

ResolveInit ==
    /\ resolveArgs \in ResolveChoices
    /\ resolvePc = "init"
    /\ resolution = NoResolution

\* One call of determineFilePathAndAction.
Resolve ==
    /\ resolvePc = "init"
    /\ resolution' = determineFilePathAndAction(resolveArgs.wf, resolveArgs.localFiles,
                                              resolveArgs.output, resolveArgs.overwrite)
    /\ resolvePc' = "resolved"
    /\ UNCHANGED <<resolveArgs, sanVars, driftVars, indexVars, tagVars, fetchVars, planVars,
                   syncVars>>

TagIdle ==
    /\ tagWorkflow = NoWorkflow
    /\ tagRegistry = <<>>
    /\ tagPc = "done"
    /\ tagErr = ""

MaxTags == 3

\* the tags a workflow file may list: "x" with the identifier it has on the
\* instance, and "x", "y", "z" without an identifier
TagChoices ==
    {Tag(51, "x", 0, 0), Tag(NoId, "x", 0, 0), Tag(NoId, "y", 0, 0), Tag(NoId, "z", 0, 0)}

TagLists == {None} \cup {Some(t) : t \in UNION {[1..n -> TagChoices] : n \in 0..MaxTags}}

\* the tags of the instance: none, "x", "x" and "y", or two tags named "x"
TagRegistries ==
    {<<>>,
     <<Tag(51, "x", 1, 1)>>,
     <<Tag(51, "x", 1, 1), Tag(52, "y", 1, 1)>>,
     <<Tag(53, "x", 1, 1), Tag(51, "x", 1, 1)>>}

\* the calls of HandleTagUpdates that may be made to fail
TagFaults ==
    {{}} \cup {Fault(op, NoId) : op \in {"GetTags", "CreateTag", "UpdateWorkflowTags"}}

\* processActivationAndTags is about to call HandleTagUpdates for workflow 1
TagInit ==
    /\ n8nWorkflows = <<RemoteWorkflow(1, NameA, "false", Some(<<>>))>>
    /\ serverTags \in TagRegistries
    /\ gen = 0
    /\ files = EmptyMap
    /\ args \in {Args("sync", NoPath, dryRun, FALSE, FALSE, FALSE, "", FALSE, NoId, <<>>) :
                    dryRun \in BOOLEAN}
    /\ pc = "tags"
    /\ pass = MaxPasses
    /\ written = {}
    /\ scan = <<>>
    /\ idx = 1
    /\ localWorkflowIDs = {}
    /\ updatedWorkflows = {}
    /\ calls = <<>>
    /\ msgs = <<>>
    /\ results = <<>>
    /\ writes = <<>>
    /\ errored = FALSE
    /\ warned = FALSE
    /\ faulty = FALSE
    /\ tagWorkflow \in {LocalWorkflow(1, NameA, "nil", t) : t \in TagLists}
    /\ tagRegistry = serverTags
    /\ tagPc = "init"
    /\ tagErr = ""

\* One call of HandleTagUpdates(client, cmd, workflow, workflowID, dryRun).
HandleTags(fail) ==
    /\ tagPc = "init"
    /\ LET Step(out, plain) ==
                /\ Inject(fail, out # plain)
                /\ Commit(out.ctx)
                /\ tagErr' = out.err
       IN  Step(HandleTagUpdates(Context, tagWorkflow, tagWorkflow.id, args.dryRun, fail),
                HandleTagUpdates(Context, tagWorkflow, tagWorkflow.id, args.dryRun, {}))
    /\ tagPc' = "done"
    /\ UNCHANGED <<tagWorkflow, tagRegistry, files, args, pc, pass, written, scan, idx,
                   localWorkflowIDs, updatedWorkflows, results, writes, errored, warned,
                   fetchVars, planVars, sanVars, driftVars, indexVars, resolveVars>>

UtilIdle == SanitizeIdle /\ DriftIdle /\ IndexIdle /\ ResolveIdle /\ TagIdle

(***************************************************************************)
(* Specifications                                                          *)
(***************************************************************************)
InitFetch == FetchInit /\ PlanIdle /\ SyncIdle /\ UtilIdle

NextFetch ==
    \E kind \in ResponseKinds, data \in PageChoices, next \in NextChoices :
        FetchPage(kind, data, next)

SpecFetch == InitFetch /\ [][NextFetch]_vars

InitPlan == FetchIdle /\ PlanInit /\ SyncIdle /\ UtilIdle

NextPlan == Plan

SpecPlan == InitPlan /\ [][NextPlan]_vars

Init == FetchIdle /\ PlanIdle /\ SyncInit /\ UtilIdle

Next ==
    \/ SyncDirectory
    \/ \E fail \in FileFaults : ProcessDirFile(fail)
    \/ \E fail \in PruneFaults : PruneStep(fail)
    \/ \E fail \in RefreshFaults :
         \E order \in {<<>>} \cup Orders(DOMAIN extractLocalWorkflows(files)) :
            RefreshStep(order, fail)
    \/ \E fail \in FileFaults \cup RefreshFaults : SyncSingleFile(fail)
    \/ \E fail \in RefreshFaults :
         \E order \in Orders(DOMAIN extractLocalWorkflows(files)) :
            RefreshDirectory(order, fail)
    \/ Repeat

Spec == Init /\ [][Next]_vars

InitPrune == FetchIdle /\ PlanIdle /\ PruneInit /\ UtilIdle

NextPrune == \E fail \in PruneFaults : PruneStep(fail)

SpecPrune == InitPrune /\ [][NextPrune]_vars

InitTags ==
    /\ FetchIdle /\ PlanIdle /\ TagInit
    /\ SanitizeIdle /\ DriftIdle /\ IndexIdle /\ ResolveIdle

NextTags == \E fail \in TagFaults : HandleTags(fail)

SpecTags == InitTags /\ [][NextTags]_vars

InitResolve ==
    /\ FetchIdle /\ PlanIdle /\ SyncIdle
    /\ SanitizeIdle /\ DriftIdle /\ IndexIdle /\ TagIdle /\ ResolveInit

NextResolve == Resolve

SpecResolve == InitResolve /\ [][NextResolve]_vars

InitSanitize ==
    /\ FetchIdle /\ PlanIdle /\ SyncIdle
    /\ DriftIdle /\ IndexIdle /\ ResolveIdle /\ TagIdle /\ SanitizeInit

NextSanitize == Sanitize

SpecSanitize == InitSanitize /\ [][NextSanitize]_vars

InitDrift ==
    /\ FetchIdle /\ PlanIdle /\ SyncIdle
    /\ SanitizeIdle /\ IndexIdle /\ ResolveIdle /\ TagIdle /\ DriftInit

NextDrift == \E minimal \in BOOLEAN : DetectDrift(minimal)

SpecDrift == InitDrift /\ [][NextDrift]_vars

InitIndex ==
    /\ FetchIdle /\ PlanIdle /\ SyncIdle
    /\ SanitizeIdle /\ DriftIdle /\ ResolveIdle /\ TagIdle /\ IndexInit

NextIndex == IndexEntry

SpecIndex == InitIndex /\ [][NextIndex]_vars

\* the requested output format asks for another format than the extension
ConflictingOutput(output, ext) ==
    \/ output = "yaml" /\ ext = ".json"
    \/ output = "json" /\ IsYamlExt(ext)

MutatingOps ==
    {"CreateWorkflow", "UpdateWorkflow", "ActivateWorkflow", "DeactivateWorkflow",
     "DeleteWorkflow", "CreateTag", "UpdateWorkflowTags"}

\* the log holds every mutating call issued, and nothing else
CallsAreMutating == \A i \in 1..Len(calls) : calls[i].op \in MutatingOps

(***************************************************************************)
(* C1: in dry-run mode a sync pass, single file or directory, with or      *)
(* without prune, issues no mutating remote call at all, whatever the      *)
(* directory holds and whatever the remote state is.                       *)
(***************************************************************************)
C1_DryRunIssuesNoMutation ==
    /\ CallsAreMutating
    /\ (args.command = "sync" /\ args.dryRun) =>
            /\ calls = <<>>
            /\ n8nWorkflows \in RemoteChoices
            /\ serverTags = <<Tag(51, "x", 1, 1)>>

C1_Witness ==
    /\ args.command = "sync"
    /\ args.dryRun
    /\ args.prune
    /\ pc = "done"
    /\ \E i \in 1..Len(msgs) : msgs[i].op = "DeleteWorkflow"
    /\ \E i \in 1..Len(msgs) : msgs[i].op = "CreateTag"
    /\ \E i \in 1..Len(msgs) : msgs[i].op = "UpdateWorkflowTags"
    /\ \E i \in 1..Len(msgs) : msgs[i].op = "CreateWorkflow"
    /\ \E i \in 1..Len(msgs) : msgs[i].op = "DeactivateWorkflow"

(***************************************************************************)
(* C2: with prune enabled, a workflow that was created or updated from a   *)
(* local file earlier in the same sync pass is never deleted by that       *)
(* pass's prune phase.                                                     *)
(***************************************************************************)
C2_PruneSparesSyncedWorkflows ==
    \A i, j \in 1..Len(calls) :
        (/\ i < j
         /\ calls[i].op \in {"CreateWorkflow", "UpdateWorkflow"}
         /\ calls[i].ok
         /\ calls[j].op = "DeleteWorkflow"
         /\ calls[j].ok)
        => calls[i].id # calls[j].id

(***************************************************************************)
(* C3: when the fetch-by-identifier for a local workflow fails with a      *)
(* transport failure, the failure is surfaced as the error for that        *)
(* workflow and the create branch is not taken: no workflow is created and *)
(* no creation is announced for it.                                        *)
(***************************************************************************)
C3_TransportFailureIsSurfaced ==
    \A i \in 1..Len(results) :
        results[i].fetch = "transport" =>
            /\ results[i].err # ""
            /\ ~results[i].Created

(***************************************************************************)
(* C4: when a local file with no identifier is synced, not in dry-run and  *)
(* with refresh enabled, and the remote create succeeds, then at the end   *)
(* of the pass the file at that same path holds the identifier the create  *)
(* call returned.  Stated for passes without prune in which no call failed *)
(* and no error was reported, and for files whose extension the requested  *)
(* output format does not conflict with.                                   *)
(***************************************************************************)
C4_CreatedIdIsWrittenBack ==
    (/\ pc = "done"
     /\ args.command = "sync"
     /\ ~args.dryRun
     /\ args.refresh
     /\ ~args.prune
     /\ ~faulty
     /\ ~errored)
    => \A i \in 1..Len(results) :
            (/\ results[i].localId = NoId
             /\ results[i].Created
             /\ ~ConflictingOutput(args.output, results[i].FilePath.ext))
            => /\ files[results[i].FilePath].valid
               /\ files[results[i].FilePath].wf.id = results[i].WorkflowID

(***************************************************************************)
(* C5: after a sync with refresh, not in dry-run, has completed without    *)
(* error, the same sync run again on the resulting files against the       *)
(* unchanged remote issues no mutating remote call.  Stated for runs in    *)
(* which no call failed, neither error nor warning was reported, and the   *)
(* file's identifier is not overridden by --id or --name.                  *)
(***************************************************************************)
C5_RepeatedSyncIsNoOp ==
    (/\ pass > 1
     /\ args.command = "sync"
     /\ args.id = NoId
     /\ args.name = <<>>
     /\ ~args.dryRun
     /\ args.refresh
     /\ ~args.prune
     /\ ~faulty
     /\ ~errored
     /\ ~warned)
    => calls = <<>>

(***************************************************************************)
(* C6: whenever write-back, by refresh or at the end of a sync, writes a   *)
(* workflow whose identifier is already tracked by a local file, and the   *)
(* user requested neither overwrite nor an output format conflicting with  *)
(* that file's extension, it writes to the tracked path.                   *)
(***************************************************************************)
C6_TrackedPathIsStable ==
    \A i \in 1..Len(writes) :
        (/\ writes[i].tracked # NoPath
         /\ ~args.overwrite
         /\ ~ConflictingOutput(args.output, writes[i].tracked.ext))
        => writes[i].path = writes[i].tracked

\* results[i] is the file whose processing has just ended
JustProcessed(i) ==
    /\ i = Len(results)
    /\ \/ pc \in {"files", "prune"}
       \/ pc = "done" /\ args.file # NoPath

(***************************************************************************)
(* C7: after a sync, not in dry-run, has processed a local workflow whose  *)
(* active flag is explicitly set and has reported no error for it, the     *)
(* remote workflow's active flag equals the local flag.                    *)
(***************************************************************************)
C7_LocalActiveIsApplied ==
    \A i \in 1..Len(results) :
        (/\ JustProcessed(i)
         /\ args.command = "sync"
         /\ ~args.dryRun
         /\ results[i].err = ""
         /\ results[i].localActive # "nil")
        => /\ IndexOfId(n8nWorkflows, results[i].WorkflowID) # 0
           /\ n8nWorkflows[IndexOfId(n8nWorkflows, results[i].WorkflowID)].active
                = results[i].localActive

(***************************************************************************)
(* C8: the paginated fetch fails with a pagination-cycle error as soon as  *)
(* the server returns a next-cursor it already returned earlier in the     *)
(* same fetch, and it never issues more list requests than the number of   *)
(* distinct cursor values returned plus one.                               *)
(***************************************************************************)
LastCursorIsRepeat ==
    /\ Len(returned) > 0
    /\ \E i \in 1..(Len(returned) - 1) : returned[i] = returned[Len(returned)]

C8_CycleDetected ==
    /\ LastCursorIsRepeat => (fetchPc = "failed" /\ fetchErr = "cycle")
    /\ fetchErr = "cycle" => LastCursorIsRepeat
    /\ requests <= Cardinality(Range(returned)) + 1

C8_Witness ==
    /\ fetchErr = "cycle"
    /\ requests = 3
    /\ Cardinality(Range(returned)) = 2

(***************************************************************************)
(* C9: if every page request succeeds and the server ends with an empty or *)
(* absent next-cursor without repeating one, the fetch terminates and      *)
(* returns the workflows of all pages concatenated in fetch order.         *)
(***************************************************************************)
C9_AllPagesInOrder ==
    /\ fetchPc = "returned" => (fetchErr = "" /\ all = Flatten(served))
    /\ (fetchPc = "loop" /\ requests > 0) => all = Flatten(served)

C9_Witness ==
    /\ fetchPc = "returned"
    /\ Len(served) = 3
    /\ all = <<2, 3, 1, 2, 3>>

(***************************************************************************)
(* C10: when the remote workflow is absent the planner sets                *)
(* needs-activation iff the local active flag is true, and sets neither    *)
(* needs-content-update nor needs-deactivation.                            *)
(***************************************************************************)
C10_RemoteAbsentPlan ==
    (planPc = "planned" /\ planRemote = None) =>
        /\ planChanges.NeedsActivation <=> (planLocal.active = "true")
        /\ ~planChanges.NeedsUpdate
        /\ ~planChanges.NeedsDeactivation

C10_Witness ==
    /\ planPc = "planned"
    /\ planRemote = None
    /\ planLocal.active = "true"
    /\ planChanges.NeedsActivation

(***************************************************************************)
(* C11: with the remote workflow present the planner sets needs-activation *)
(* exactly when the local active flag is true and the remote one is false  *)
(* or unset, and needs-deactivation exactly when the local flag is false   *)
(* and the remote one is true; the two are never both set and neither is   *)
(* set when the local flag is unset.                                       *)
(***************************************************************************)
C11_ActivationPlan ==
    (planPc = "planned" /\ planRemote # None) =>
        /\ planChanges.NeedsActivation <=>
              (planLocal.active = "true" /\ planRemote[1].active \in {"false", "nil"})
        /\ planChanges.NeedsDeactivation <=>
              (planLocal.active = "false" /\ planRemote[1].active = "true")
        /\ ~(planChanges.NeedsActivation /\ planChanges.NeedsDeactivation)
        /\ planLocal.active = "nil" =>
              (~planChanges.NeedsActivation /\ ~planChanges.NeedsDeactivation)

C11_Witness ==
    /\ planPc = "planned"
    /\ planRemote # None
    /\ planLocal.active = "nil"
    /\ planRemote[1].active = "true"
    /\ ~planChanges.NeedsDeactivation

\* the tag list as a sequence of (ID, name) pairs
TagPairs(tags) == [i \in 1..Len(tags) |-> <<tags[i].id, tags[i].name>>]

(***************************************************************************)
(* C12: with the remote workflow present and a non-empty local tag list    *)
(* the planner sets needs-tag-update exactly when the remote tag list is   *)
(* empty or the two lists differ as sequences of (ID, name) pairs; tag     *)
(* timestamps have no influence.                                           *)
(***************************************************************************)
C12_TagPlanIgnoresTimestamps ==
    (planPc = "planned" /\ planRemote # None /\ HasTags(planLocal)) =>
        (planChanges.NeedsTagsUpdate <=>
            \/ ~HasTags(planRemote[1])
            \/ TagPairs(planLocal.tags[1]) # TagPairs(planRemote[1].tags[1]))

\* the two workflows agree on everything but the workflow's timestamps, the
\* timestamps of their tags, and a nil against an empty connections map
SameButServerFields(a, b) ==
    /\ a.id = b.id
    /\ a.name = b.name
    /\ a.nodes = b.nodes
    /\ a.active = b.active
    /\ a.shared = b.shared
    /\ (a.tags = None) <=> (b.tags = None)
    /\ a.tags # None => TagPairs(a.tags[1]) = TagPairs(b.tags[1])
    /\ \/ a.connections = b.connections
       \/ {a.connections, b.connections} = {"nil", "empty"}

(***************************************************************************)
(* C13: normalized drift detection reports no drift whenever the two       *)
(* workflows differ only in their created/updated timestamps, in the       *)
(* timestamps of their tags, or in a nil against an empty connections map; *)
(* in particular a workflow never drifts from itself.                      *)
(***************************************************************************)
C13_NormalizedDriftIgnoresServerFields ==
    (driftPc = "normalized" /\ SameButServerFields(driftActual, driftDesired)) =>
        ~hasDrift

C13_Witness ==
    /\ driftPc = "normalized"
    /\ driftActual.createdAt # driftDesired.createdAt
    /\ driftActual.updatedAt # driftDesired.updatedAt
    /\ driftActual.connections = "nil"
    /\ driftDesired.connections = "empty"
    /\ driftActual.tags = Some(<<Tag(51, "x", 0, 0)>>)
    /\ driftDesired.tags = Some(<<Tag(51, "x", 1, 1)>>)
    /\ driftActual.nodes = driftDesired.nodes
    /\ ~hasDrift

\* the files of the scanned directory that parse and claim the identifier
Claiming(id) ==
    {p \in DOMAIN indexDir : indexDir[p].valid /\ indexDir[p].wf.id = id}

\* position of the path in the scan
ScanPos(p) == CHOOSE k \in 1..Len(indexEntries) : indexEntries[k] = p

(***************************************************************************)
(* C16: when a .json file and a YAML-extension file of the directory claim *)
(* the same identifier, the finished index maps the identifier to a YAML   *)
(* file claiming it, whichever of the two was scanned first.               *)
(***************************************************************************)
C16_YamlWinsOverJson ==
    indexPos > Len(indexEntries) =>
        \A id \in {1, 2} :
            (\E p, q \in Claiming(id) : p.ext = ".json" /\ IsYamlExt(q.ext)) =>
                /\ id \in DOMAIN indexFiles
                /\ indexFiles[id] \in Claiming(id)
                /\ IsYamlExt(indexFiles[id].ext)

C16_Witness ==
    /\ indexPos > Len(indexEntries)
    /\ Claiming(1) = {Path(NameA, ".json"), Path(NameB, ".yml")}
    /\ indexFiles[1] = Path(NameB, ".yml")

(***************************************************************************)
(* C17: when exactly two files of the directory claim an identifier and    *)
(* both have the same format, the finished index maps the identifier to    *)
(* the later-scanned of the two.                                           *)
(***************************************************************************)
C17_LaterScannedWins ==
    indexPos > Len(indexEntries) =>
        \A id \in {1, 2} :
            \A p, q \in Claiming(id) :
                (/\ Claiming(id) = {p, q}
                 /\ ScanPos(p) < ScanPos(q)
                 /\ \/ p.ext = ".json" /\ q.ext = ".json"
                    \/ IsYamlExt(p.ext) /\ IsYamlExt(q.ext))
                => indexFiles[id] = q

(***************************************************************************)
(* C20: sanitizing a file name is idempotent: sanitizing the result of     *)
(* SanitizeFilename again returns it unchanged.                            *)
(***************************************************************************)
C20_SanitizeIsIdempotent ==
    \A i \in 2..Len(sanResults) : sanResults[i] = sanResults[i - 1]

\* "CON" becomes "_CON", and stays "_CON"
C20_Witness ==
    /\ sanName = <<67, 79, 78>>
    /\ sanResults = <<<<95, 67, 79, 78>>, <<95, 67, 79, 78>>>>

\* the phase of the executor a remote call belongs to: content sync,
\* activation state, tags
Phase(op) ==
    IF op \in {"CreateWorkflow", "UpdateWorkflow"} THEN 1
    ELSE IF op \in {"ActivateWorkflow", "DeactivateWorkflow"} THEN 2
    ELSE 3

(***************************************************************************)
(* C14: the remote calls a sync issues for one workflow file come in the   *)
(* order content sync (create or update), activation or deactivation, tag  *)
(* calls; activation and tag calls follow a create or update only if it    *)
(* succeeded, and they name the identifier the server returned.  Stated    *)
(* for the first file of a pass, whose calls are all the calls so far.     *)
(***************************************************************************)
C14_CallsInFixedOrder ==
    (args.command = "sync" /\ JustProcessed(1)) =>
        /\ \A j, k \in 1..Len(calls) : j < k => Phase(calls[j].op) <= Phase(calls[k].op)
        /\ \A k \in 2..Len(calls) :
              /\ Phase(calls[k].op) # 1
              /\ Phase(calls[1].op) = 1 =>
                    (calls[1].ok /\ calls[1].id = results[1].WorkflowID)
        /\ \A k \in 1..Len(calls) :
              calls[k].op \in {"ActivateWorkflow", "DeactivateWorkflow",
                               "UpdateWorkflowTags"}
              => (calls[k].id # NoId /\ calls[k].id = results[1].WorkflowID)

\* a file whose id the instance does not know: created, activated, tagged
C14_Witness ==
    /\ args.command = "sync"
    /\ Len(results) = 1
    /\ JustProcessed(1)
    /\ results[1].localId = 9
    /\ Len(calls) = 3
    /\ calls[1] = Call("CreateWorkflow", GenWorkflowId(0), TRUE)
    /\ calls[2] = Call("ActivateWorkflow", GenWorkflowId(0), TRUE)
    /\ calls[3] = Call("UpdateWorkflowTags", GenWorkflowId(0), TRUE)

(***************************************************************************)
(* C15: the pruner issues a delete (in dry-run, a message) only for a      *)
(* remote workflow whose identifier is non-empty and not in localIDs,      *)
(* never for one without identifier, and, when the listing succeeded and   *)
(* no delete failed, for every such workflow.                              *)
(***************************************************************************)
C15_PruneDeletesExactlyTheUntracked ==
    (pc = "refresh" /\ args.prune) =>
        /\ \A k \in 1..Len(calls) :
              /\ calls[k].op = "DeleteWorkflow"
              /\ calls[k].id # NoId
              /\ calls[k].id \notin localWorkflowIDs
        /\ \A k \in 1..Len(msgs) :
              /\ msgs[k].op = "DeleteWorkflow"
              /\ msgs[k].id # NoId
              /\ msgs[k].id \notin localWorkflowIDs
        /\ args.dryRun => calls = <<>>
        /\ ~errored =>
              \A i \in 1..Len(n8nWorkflows) :
                  (n8nWorkflows[i].id # NoId /\ n8nWorkflows[i].id \notin localWorkflowIDs)
                  => (args.dryRun /\ \E k \in 1..Len(msgs) : msgs[k].id = n8nWorkflows[i].id)

\* workflow 3 deleted, workflow 1 kept as local, the one without id kept
C15_Witness ==
    /\ pc = "refresh"
    /\ args.prune
    /\ ~args.dryRun
    /\ localWorkflowIDs = {1}
    /\ calls = <<Call("DeleteWorkflow", 3, TRUE)>>
    /\ {n8nWorkflows[i].id : i \in 1..Len(n8nWorkflows)} = {NoId, 1}

(***************************************************************************)
(* C18: every file written by write-back for a workflow with a non-empty   *)
(* name carries an originalName: the one stored in the file that tracked   *)
(* the workflow before, if that file had one, and the workflow's current   *)
(* name otherwise; so a stored originalName survives remote renames.       *)
(***************************************************************************)
C18_OriginalNameIsKept ==
    \A i \in 1..Len(writes) :
        writes[i].content.wf.name # <<>> =>
            /\ writes[i].content.originalName # <<>>
            /\ writes[i].content.originalName =
                  IF /\ writes[i].tracked # NoPath
                     /\ writes[i].before.valid
                     /\ writes[i].before.originalName # <<>>
                  THEN writes[i].before.originalName
                  ELSE writes[i].content.wf.name

\* the tracked file of a workflow renamed remotely is rewritten
C18_Witness ==
    \E i \in 1..Len(writes) :
        /\ writes[i].tracked # NoPath
        /\ writes[i].before.originalName = NameA
        /\ writes[i].content.wf.name = NameB
        /\ writes[i].content.originalName = NameA

\* the operations among the entries of a log after its first n entries
OpsAfter(log, n) == {log[k].op : k \in (n + 1)..Len(log)}

(***************************************************************************)
(* C19: every mutating action a normal sync would perform for a file, and  *)
(* every delete its prune phase would perform, is reported by a dry-run    *)
(* sync of the same state as a message in its place.                       *)
(***************************************************************************)
C19_DryRunReportsEveryAction ==
    LET Reported(normal, dry) ==
            OpsAfter(normal.ctx.calls, Len(calls)) \subseteq
                OpsAfter(dry.ctx.msgs, Len(msgs))
    IN  /\ (pc = "files" /\ idx <= Len(scan) /\ args.dryRun) =>
              Reported(ProcessWorkflowFile(Context, files, scan[idx], FALSE, {}),
                       ProcessWorkflowFile(Context, files, scan[idx], TRUE, {}))
        /\ (pc = "prune" /\ args.prune /\ args.dryRun) =>
              Reported(PruneWorkflows(Context,
                                      [args EXCEPT !.dryRun = FALSE,
                                                   !.dryRunChanged = FALSE],
                                      localWorkflowIDs, {}),
                       PruneWorkflows(Context, args, localWorkflowIDs, {}))

(***************************************************************************)
(* C28: the planner never sets needs-tag-update when the local tag list    *)
(* is absent or empty, whatever tags the remote workflow carries and       *)
(* whether or not the remote workflow exists.                              *)
(***************************************************************************)
C28_NoLocalTagsNoTagUpdate ==
    (/\ planPc = "planned"
     /\ \/ planLocal.tags = None
        \/ planLocal.tags = Some(<<>>))
    => ~planChanges.NeedsTagsUpdate

C28_Witness ==
    /\ planPc = "planned"
    /\ planLocal.tags = Some(<<>>)
    /\ planRemote # None
    /\ planRemote[1].tags = Some(<<Tag(51, "x", 1, 1)>>)
    /\ ~planChanges.NeedsTagsUpdate

\* a rune sanitization treats as invalid: control character, whitespace,
\* path separator or reserved glyph
InvalidRune(r) == r < 32 \/ IsSpace(r) \/ r \in ReservedGlyphs

\* the name consists of invalid runes followed by dots only
AllInvalid(name) ==
    /\ name # <<>>
    /\ \E k \in 0..Len(name) :
          /\ \A i \in 1..k : InvalidRune(name[i])
          /\ \A i \in (k + 1)..Len(name) : name[i] = Dot

(***************************************************************************)
(* C29: a name made up only of characters that sanitization treats as      *)
(* invalid, with trailing dots, sanitizes to the one-character name "_".   *)
(***************************************************************************)
C29_AllInvalidBecomesUnderscore ==
    (sanResults # <<>> /\ AllInvalid(sanName)) => sanResults[1] = <<Underscore>>

(***************************************************************************)
(* C30: the file name SanitizeFilename produces holds no path separator    *)
(* and is neither "." nor "..", so the destination built from it is a      *)
(* direct child of the target directory.                                   *)
(***************************************************************************)
C30_SanitizedNameStaysInDirectory ==
    sanResults # <<>> =>
        /\ \A i \in 1..Len(sanResults[1]) : sanResults[1][i] \notin {47, 92}
        /\ sanResults[1] \notin {<<Dot>>, <<Dot, Dot>>}

\* "../c" becomes ".._c"
C30_Witness ==
    /\ sanName = <<46, 46, 47, 99>>
    /\ sanResults # <<>>
    /\ sanResults[1] = <<46, 46, 95, 99>>
\* the extension of a requested output format: ".yaml" for yaml or yml,
\* ".json" otherwise
FormatExt(output) == IF output \in {"yaml", "yml"} THEN ".yaml" ELSE ".json"

DefaultPathIn(ext) == Path(SanitizeFilename(resolveArgs.wf.name), ext)

Tracked == resolveArgs.wf.id \in DOMAIN resolveArgs.localFiles

\* C24: when no local file is tracked for the workflow's id, or overwrite is
\* requested, the resolver returns Creating with sanitize(name) plus ".json",
\* or plus the YAML extension when a YAML output format was requested.
C24_CreatingUsesRequestedFormat ==
    (resolvePc = "resolved" /\ (~Tracked \/ resolveArgs.overwrite)) =>
        resolution = [path |-> DefaultPathIn(FormatExt(resolveArgs.output)),
                      action |-> "Creating"]

\* C25: for a tracked workflow without overwrite, the resolver returns
\* Converting with the default path in the requested format when the requested
\* format's extension differs from the tracked file's extension, and Updating
\* with the tracked path in every other case.
C25_ConvertingIffExtensionDiffers ==
    (resolvePc = "resolved" /\ Tracked /\ ~resolveArgs.overwrite) =>
        LET existingPath == resolveArgs.localFiles[resolveArgs.wf.id]
        IN  IF /\ resolveArgs.output # ""
               /\ FormatExt(resolveArgs.output) # existingPath.ext
            THEN resolution = [path |-> DefaultPathIn(FormatExt(resolveArgs.output)),
                               action |-> "Converting"]
            ELSE resolution = [path |-> existingPath, action |-> "Updating"]


\* C27: a delete that fails during the prune pass is the last call of the
\* pass, and the pass ends in error.
C27_FailedDeleteEndsThePrune ==
    \A i \in 1..Len(calls) :
        (calls[i].op = "DeleteWorkflow" /\ ~calls[i].ok) => (i = Len(calls) /\ errored)

\* the delete of workflow 1 failed while workflow 3, listed after it and
\* tracked by no file, was still to be deleted
C27_Witness ==
    /\ calls = <<Call("DeleteWorkflow", 1, FALSE)>>
    /\ errored
    /\ localWorkflowIDs = {}
    /\ Len(n8nWorkflows) >= 2
    /\ n8nWorkflows[Len(n8nWorkflows)].id = 3

C22_RepeatedRefreshWritesNothing ==
    (args.command = "refresh" /\ pass = 2) =>
        \A i \in 1..Len(writes) : writes[i].id \notin written

\* C23: without --all, a directory refresh writes only files of workflows
\* that a file of the directory already tracked.
C23_RefreshWritesOnlyTrackedWorkflows ==
    (args.command = "refresh" /\ ~args.all) =>
        \A i \in 1..Len(writes) : writes[i].tracked # NoPath

\* the calls of the log made with operation op
CallsOf(op) == SelectSeq(calls, LAMBDA c : c.op = op)

\* the identifiers the instance had for the tag name before the reconciler ran
RegisteredIds(name) ==
    {tagRegistry[i].id : i \in {j \in 1..Len(tagRegistry) : tagRegistry[j].name = name}}

\* the tags the reconciler created
CreatedTags == SubSeq(serverTags, Len(tagRegistry) + 1, Len(serverTags))

\* C21: outside dry-run, for a workflow that lists tags, the reconciler
\* that reaches the assignment issues exactly one UpdateWorkflowTags call,
\* as its last call; when it succeeds the workflow carries the desired tags
\* in local order, a tag with a local identifier under that identifier, a tag
\* without one under the identifier the instance already had for its name,
\* or under a newly created one when it had none; and CreateTag has been
\* called once for each such unknown name and for no other.
C21_OneAssignmentWithResolvedTags ==
    (/\ tagPc = "done"
     /\ tagWorkflow # NoWorkflow
     /\ ~args.dryRun
     /\ tagWorkflow.tags # None
     /\ tagWorkflow.tags # Some(<<>>)
     /\ tagErr \in {"", "updateTags"}) =>
        LET desired == tagWorkflow.tags[1]
            unknown == {desired[k].name :
                            k \in {j \in 1..Len(desired) :
                                    /\ desired[j].id = NoId
                                    /\ RegisteredIds(desired[j].name) = {}}}
            Resolved(k, t) ==
                IF desired[k].id # NoId THEN t.id = desired[k].id
                ELSE /\ t.name = desired[k].name
                     /\ IF RegisteredIds(t.name) # {} THEN t.id \in RegisteredIds(t.name)
                        ELSE \E c \in 1..Len(CreatedTags) : CreatedTags[c] = t
        IN  /\ Len(CallsOf("UpdateWorkflowTags")) = 1
            /\ calls[Len(calls)] = Call("UpdateWorkflowTags", tagWorkflow.id, tagErr = "")
            /\ Len(CallsOf("CreateTag")) = Len(CreatedTags)
            /\ {CreatedTags[c].name : c \in 1..Len(CreatedTags)} = unknown
            /\ Len(CreatedTags) = Cardinality(unknown)
            /\ tagErr = "" =>
                  /\ n8nWorkflows[1].tags # None
                  /\ Len(n8nWorkflows[1].tags[1]) = Len(desired)
                  /\ \A k \in 1..Len(desired) : Resolved(k, n8nWorkflows[1].tags[1][k])

\* "y" is created once and used twice, "x" is resolved to the tag the
\* instance has, and one assignment carries the three identifiers in order
C21_Witness ==
    /\ tagPc = "done" /\ tagErr = "" /\ ~args.dryRun
    /\ tagRegistry = <<Tag(51, "x", 1, 1)>>
    /\ tagWorkflow.tags = Some(<<Tag(NoId, "y", 0, 0), Tag(NoId, "x", 0, 0),
                                  Tag(NoId, "y", 0, 0)>>)
    /\ calls = <<Call("CreateTag", GenTagId(0), TRUE), Call("UpdateWorkflowTags", 1, TRUE)>>
    /\ n8nWorkflows[1].tags # None
    /\ [k \in 1..3 |-> n8nWorkflows[1].tags[1][k].id] = <<GenTagId(0), 51, GenTagId(0)>>

====
